---------------------------- MODULE Spec2Model ----------------------------
(* A model of the vrypt-server per-worker reactor (src/src/worker.rs) and  *)
(* of its substructures: the buffer and token pools (pool.rs), the slab    *)
(* (slab.rs), the connection record (conn.rs) and the RPS counter          *)
(* (counter.rs).                                                           *)
EXTENDS Integers, Sequences, FiniteSets, Bags, TLC

(***************************************************************************)
(* Bounds: the program's capacities and durations, scaled down.            *)
(***************************************************************************)
MAX_CONNS == 3
BUF_SIZE == 10
MAX_RECYCLED_BUFS == 1
CONN_TIMEOUT == 2
POLL_TIMEOUT == 1
RESP_LEN == 2
ExtraClients == 2
TimedClients == 2
MaxTime == 3
MaxHeap == 3
ReqHeap == 12
NumWorkers == 2
COUNTER_MOD == 4
MaxIncs == 5

MAX_REQUEST_SIZE == BUF_SIZE
SERVER_TOKEN == 0
thread_id == 0

(***************************************************************************)
(* Bytes.  NUL is the zero byte of a fresh buffer, XX any other byte.      *)
(***************************************************************************)
CR == "CR"
LF == "LF"
XX == "x"
NUL == "NUL"
TERMINATOR == <<CR, LF, CR, LF>>

response == [i \in 1..RESP_LEN |-> i]

Min(a, b) == IF a <= b THEN a ELSE b

(* Option<T>: None is the empty sequence, Some(x) the one-element one.     *)
None == <<>>
Some(x) == <<x>>
IsSome(o) == o # <<>>
Unwrap(o) == o[1]

(***************************************************************************)
(* pool.rs: BufPool                                                        *)
(***************************************************************************)
ZeroBuf == [i \in 1..BUF_SIZE |-> NUL]

BufPool_new(max_active, max_recycled) ==
    [free |-> <<>>, active |-> 0,
     max_active |-> max_active, max_recycled |-> max_recycled]

(* acquire: the pool after the call and the Option<buffer> returned.       *)
BufPool_acquire(p) ==
    IF p.active >= p.max_active
    THEN [pool |-> p, ret |-> None]
    ELSE IF p.free # <<>>
         THEN [pool |-> [p EXCEPT !.active = @ + 1,
                                  !.free = SubSeq(@, 1, Len(@) - 1)],
               ret |-> Some(p.free[Len(p.free)])]
         ELSE [pool |-> [p EXCEPT !.active = @ + 1], ret |-> Some(ZeroBuf)]

(* BufPool_release with the decrement moved into the recycling branch.     *)
BufPool_release_nodec(p, buf) ==
    IF p.active = 0
    THEN p
    ELSE IF Len(p.free) < p.max_recycled
         THEN [p EXCEPT !.active = @ - 1, !.free = Append(@, buf)]
         ELSE p

BufPool_release(p, buf) ==
    IF p.active = 0
    THEN p
    ELSE IF Len(p.free) < p.max_recycled
         THEN [p EXCEPT !.active = @ - 1, !.free = Append(@, buf)]
         ELSE [p EXCEPT !.active = @ - 1]

(***************************************************************************)
(* pool.rs: TokenPool                                                      *)
(***************************************************************************)
TokenPool_new ==
    [next |-> 1, free |-> <<>>, in_use |-> [t \in 0..(MAX_CONNS - 1) |-> FALSE]]

(* TokenPool_acquire minting while next <= MAX_CONNS.                      *)
TokenPool_acquire_inclusive(p) ==
    IF p.free # <<>>
    THEN LET t == p.free[Len(p.free)] IN
         [pool |-> [p EXCEPT !.free = SubSeq(@, 1, Len(@) - 1),
                             !.in_use[t] = TRUE],
          ret |-> Some(t)]
    ELSE IF p.next <= MAX_CONNS
         THEN [pool |-> [p EXCEPT !.next = @ + 1, !.in_use[p.next] = TRUE],
               ret |-> Some(p.next)]
         ELSE [pool |-> p, ret |-> None]

TokenPool_acquire(p) ==
    IF p.free # <<>>
    THEN LET t == p.free[Len(p.free)] IN
         [pool |-> [p EXCEPT !.free = SubSeq(@, 1, Len(@) - 1),
                             !.in_use[t] = TRUE],
          ret |-> Some(t)]
    ELSE IF p.next < MAX_CONNS
         THEN [pool |-> [p EXCEPT !.next = @ + 1, !.in_use[p.next] = TRUE],
               ret |-> Some(p.next)]
         ELSE [pool |-> p, ret |-> None]

(* TokenPool_release without the in_use test.                              *)
TokenPool_release_unchecked(p, t) ==
    IF t = 0 \/ t >= MAX_CONNS
    THEN p
    ELSE [p EXCEPT !.in_use[t] = FALSE, !.free = Append(@, t)]

TokenPool_release(p, t) ==
    IF t = 0 \/ t >= MAX_CONNS
    THEN p
    ELSE IF ~p.in_use[t]
         THEN p
         ELSE [p EXCEPT !.in_use[t] = FALSE, !.free = Append(@, t)]

(***************************************************************************)
(* slab.rs: Slab                                                           *)
(***************************************************************************)
Slab_new(cap) == [t \in 0..(cap - 1) |-> None]
(* Slab_insert that ignores the token and fills the first empty slot.       *)
Slab_insert_firstfree(s, tok, conn) ==
    IF \E t \in DOMAIN s : s[t] = None
    THEN [s EXCEPT ![CHOOSE t \in DOMAIN s :
                       s[t] = None /\ \A u \in DOMAIN s : s[u] = None => t <= u]
                     = Some(conn)]
    ELSE [s EXCEPT ![tok] = Some(conn)]

Slab_insert(s, tok, conn) == [s EXCEPT ![tok] = Some(conn)]
Slab_get(s, tok) == s[tok]
Slab_remove(s, tok) == [s EXCEPT ![tok] = None]


(***************************************************************************)
(* conn.rs: Conn.  `now_` stands for the value of Instant::now().          *)
(* worker.rs reads a field `generation` that the struct in conn.rs does    *)
(* not declare and that no code writes; it is given the value generation0  *)
(* at construction.                                                        *)
(***************************************************************************)
generation0 == 0

Conn_new(stream, resp, buf, now_) ==
    [stream |-> stream, read_buf |-> buf, read_len |-> 0, scan_offset |-> 0,
     write_buf |-> resp, write_pos |-> None, last_active |-> now_,
     generation |-> generation0]

(* windows(4).any(|w| w == b"\r\n\r\n") over buf[start..end), 0-based.     *)
WindowsAny(buf, start, end) ==
    \E i \in start..(end - 4) :
        \A j \in 1..4 : buf[i + j] = TERMINATOR[j]

(* request_complete scanning only the bytes of the reads after the one    *)
(* that set scan_offset.                                                   *)
request_complete_newbytes(c) ==
    LET start == IF c.scan_offset > 0 THEN c.scan_offset + 3 ELSE 0
        found == WindowsAny(c.read_buf, start, c.read_len)
    IN  [conn |-> IF c.read_len >= 3
                  THEN [c EXCEPT !.scan_offset = c.read_len - 3]
                  ELSE c,
         ret |-> found]

(* request_complete scanning the buffer to its end, not to read_len.       *)
request_complete_wholebuf(c) ==
    LET start == IF c.scan_offset >= 3 THEN c.scan_offset - 3 ELSE 0
        found == WindowsAny(c.read_buf, start, BUF_SIZE)
    IN  [conn |-> IF c.read_len >= 3
                  THEN [c EXCEPT !.scan_offset = c.read_len - 3]
                  ELSE c,
         ret |-> found]

(* request_complete: the connection after the call and the value returned. *)
request_complete(c) ==
    LET start == IF c.scan_offset >= 3 THEN c.scan_offset - 3 ELSE 0
        found == WindowsAny(c.read_buf, start, c.read_len)
    IN  [conn |-> IF c.read_len >= 3
                  THEN [c EXCEPT !.scan_offset = c.read_len - 3]
                  ELSE c,
         ret |-> found]

has_pending_write(c) ==
    IsSome(c.write_pos) /\ Unwrap(c.write_pos) < Len(c.write_buf)

(* arm_write that keeps the bytes read.                                    *)
arm_write_noreset(c) == [c EXCEPT !.write_pos = Some(0)]

arm_write(c) ==
    [c EXCEPT !.read_len = 0, !.scan_offset = 0, !.write_pos = Some(0)]

(* reset_for_read that leaves write_pos as it is.                          *)
reset_for_read_keep(c) == c

reset_for_read(c) == [c EXCEPT !.write_pos = None]

touch(c, now_) == [c EXCEPT !.last_active = now_]

(***************************************************************************)
(* counter.rs: RpsCounter                                                  *)
(***************************************************************************)
(* counter.rs: RpsCounter.  A slot is an AtomicU64: COUNTER_MOD stands for  *)
(* 2^64, at which fetch_add wraps.                                         *)
RpsCounter_new(num_threads) == [w \in 0..(num_threads - 1) |-> 0]

(* increment that counts in slot 0 whichever thread calls it.              *)
RpsCounter_increment_slot0(cnt, id) ==
    [cnt EXCEPT ![0] = (@ + 1) % COUNTER_MOD]

RpsCounter_increment(cnt, id) == [cnt EXCEPT ![id] = (@ + 1) % COUNTER_MOD]

(* u64::wrapping_sub clamped at 0 instead of wrapping.                     *)
saturating_sub(a, b) == IF a >= b THEN a - b ELSE 0

(* u64::wrapping_sub (counter.rs line 58).                                 *)
wrapping_sub(a, b) == IF a >= b THEN a - b ELSE a - b + COUNTER_MOD


(***************************************************************************)
(* State.  One worker (thread_id) and its environment: the clock, the      *)
(* client sockets and the listener's backlog.                              *)
(***************************************************************************)
VARIABLES
    clock,          \* the value Instant::now() returns
    poll_start,     \* the time the current poll call was entered
    now,            \* worker: `now` of the current loop iteration
    pc,             \* worker: position in the loop body
    events,         \* worker: tokens of the poll batch not yet dispatched
    slab, token_pool, buf_pool, to_close, timeout_heap,
    registry,       \* the selector: socket -> Option<[token, interest]>
    backlog,        \* sockets the listener has not yet accepted
    socks,          \* the client sockets
    counter,        \* the RpsCounter slots
    reaped,         \* history: what the last timeout drain enqueued, and why
    last_rc,        \* history: this iteration's last request_complete call
    h_loaned, h_held, h_ret,  \* the pools' clients in PoolSpec
    incs,           \* history: the increment(w) calls made by each worker w
    pusher,         \* the stats pusher thread (CounterSpec)
    wheel,          \* a TimerWheel (WheelSpec)
    wheel_h,        \* history: the wheel's caller, its adds and what came out
    call            \* one handle_connection call, loop turn by loop turn (LoopSpec)

vars == <<clock, poll_start, now, pc, events, slab, token_pool, buf_pool,
          to_close, timeout_heap, registry, backlog, socks, counter,
          reaped, last_rc, h_loaned, h_held, h_ret, incs, pusher,
          wheel, wheel_h, call>>

reactor_vars == <<clock, poll_start, now, pc, events, slab, to_close,
                  timeout_heap, registry, backlog, socks, counter, reaped,
                  last_rc>>

loop_vars == <<call>>

(* Enough clients to exhaust the token pool, and ExtraClients more.         *)
Clients == 1..(MAX_CONNS - 1 + ExtraClients)
Tokens == 1..(MAX_CONNS - 1)

(* A socket: st is "off" (its client takes no part), "new" (not connected  *)
(* yet), "backlog", "open"                                                 *)
(* (accepted and admitted), "dropped" (accepted, then dropped at           *)
(* admission) or "closed" (closed by close_conn).  script: the bytes the   *)
(* peer has still to send; inbuf: bytes received and not yet read; fin:    *)
(* the peer has closed.  History: rcvd, every byte the server read; out,   *)
(* every byte the server wrote; reads, the number of do_read calls that    *)
(* read bytes since the read buffer was last empty; rfailed, whether the   *)
(* last reregister call for the socket failed.                             *)
Sock_new(script) ==
    [st |-> "off", script |-> script, inbuf |-> <<>>, fin |-> FALSE,
     rcvd |-> <<>>, out |-> <<>>, reads |-> 0, rfailed |-> FALSE]

(***************************************************************************)
(* worker.rs: do_read (lines 204-233).  The socket returns at most `chunk` *)
(* bytes per read and fails with an error at the read numbered errAfter    *)
(* (counted from 0; -1: never).  The inputs used fail at the first read or *)
(* never.                                                                  *)
(***************************************************************************)
(* do_read that returns on a full buffer without closing the connection.   *)
RECURSIVE do_read_keepfull(_, _, _, _, _, _)
do_read_keepfull(conn, sock, token, tc, chunk, errAfter) ==
    IF conn.read_len >= BUF_SIZE
    THEN [conn |-> conn, sock |-> sock, to_close |-> tc, ret |-> TRUE]
    ELSE IF errAfter = 0
    THEN [conn |-> conn, sock |-> sock, to_close |-> Append(tc, token), ret |-> FALSE]
    ELSE IF sock.inbuf = <<>>
    THEN IF sock.fin
         THEN [conn |-> conn, sock |-> sock, to_close |-> Append(tc, token), ret |-> FALSE]
         ELSE [conn |-> conn, sock |-> sock, to_close |-> tc, ret |-> TRUE]
    ELSE LET n == Min(Min(chunk, BUF_SIZE - conn.read_len), Len(sock.inbuf))
             conn1 == [conn EXCEPT
                         !.read_buf = [i \in 1..BUF_SIZE |->
                             IF i > conn.read_len /\ i <= conn.read_len + n
                             THEN sock.inbuf[i - conn.read_len]
                             ELSE conn.read_buf[i]],
                         !.read_len = @ + n]
             sock1 == [sock EXCEPT
                         !.inbuf = SubSeq(@, n + 1, Len(@)),
                         !.rcvd = @ \o SubSeq(sock.inbuf, 1, n)]
         IN  do_read_keepfull(conn1, sock1, token, tc, chunk,
                              IF errAfter > 0 THEN errAfter - 1 ELSE errAfter)

RECURSIVE do_read(_, _, _, _, _, _)
do_read(conn, sock, token, tc, chunk, errAfter) ==
    IF conn.read_len >= BUF_SIZE
    THEN [conn |-> conn, sock |-> sock, to_close |-> Append(tc, token), ret |-> FALSE]
    ELSE IF errAfter = 0
    THEN [conn |-> conn, sock |-> sock, to_close |-> Append(tc, token), ret |-> FALSE]
    ELSE IF sock.inbuf = <<>>
    THEN IF sock.fin
         THEN [conn |-> conn, sock |-> sock, to_close |-> Append(tc, token), ret |-> FALSE]
         ELSE [conn |-> conn, sock |-> sock, to_close |-> tc, ret |-> TRUE]
    ELSE LET n == Min(Min(chunk, BUF_SIZE - conn.read_len), Len(sock.inbuf))
             conn1 == [conn EXCEPT
                         !.read_buf = [i \in 1..BUF_SIZE |->
                             IF i > conn.read_len /\ i <= conn.read_len + n
                             THEN sock.inbuf[i - conn.read_len]
                             ELSE conn.read_buf[i]],
                         !.read_len = @ + n]
             sock1 == [sock EXCEPT
                         !.inbuf = SubSeq(@, n + 1, Len(@)),
                         !.rcvd = @ \o SubSeq(sock.inbuf, 1, n)]
         IN  IF conn1.read_len > MAX_REQUEST_SIZE
             THEN [conn |-> conn1, sock |-> sock1,
                   to_close |-> Append(tc, token), ret |-> FALSE]
             ELSE do_read(conn1, sock1, token, tc, chunk,
                          IF errAfter > 0 THEN errAfter - 1 ELSE errAfter)

(***************************************************************************)
(* worker.rs: do_write (lines 235-272).  The socket takes at most `chunk`  *)
(* bytes per write and `room` bytes in all; once its room is used up it    *)
(* answers would-block, or an error when `werr`.                           *)
(***************************************************************************)
(* do_write counting every successful write instead of every response.    *)
RECURSIVE do_write_loop_perwrite(_, _, _, _, _, _, _, _, _, _)
do_write_loop_perwrite(conn, sock, reg, token, tc, cnt, current_pos, chunk, room, werr) ==
    IF room = 0
    THEN [conn |-> conn, sock |-> sock, reg |-> reg, counter |-> cnt,
          to_close |-> IF werr THEN Append(tc, token) ELSE tc]
    ELSE LET n == Min(Min(chunk, Len(conn.write_buf) - current_pos), room)
             pos1 == current_pos + n
             conn1 == [conn EXCEPT !.write_pos = Some(pos1)]
             sock1 == [sock EXCEPT !.out =
                          @ \o SubSeq(conn.write_buf, current_pos + 1, pos1)]
             cnt1 == RpsCounter_increment(cnt, thread_id)
         IN  IF ~has_pending_write(conn1)
             THEN [conn |-> reset_for_read(conn1), sock |-> sock1,
                   reg |-> Some([token |-> token, interest |-> "R"]),
                   counter |-> cnt1, to_close |-> tc]
             ELSE do_write_loop_perwrite(conn1, sock1, reg, token, tc, cnt1,
                                         pos1, chunk, room - n, werr)

(* do_write without the reregister that follows a complete response.      *)
RECURSIVE do_write_loop_noreregister(_, _, _, _, _, _, _, _, _, _)
do_write_loop_noreregister(conn, sock, reg, token, tc, cnt, current_pos, chunk, room, werr) ==
    IF room = 0
    THEN [conn |-> conn, sock |-> sock, reg |-> reg, counter |-> cnt,
          to_close |-> IF werr THEN Append(tc, token) ELSE tc]
    ELSE LET n == Min(Min(chunk, Len(conn.write_buf) - current_pos), room)
             pos1 == current_pos + n
             conn1 == [conn EXCEPT !.write_pos = Some(pos1)]
             sock1 == [sock EXCEPT !.out =
                          @ \o SubSeq(conn.write_buf, current_pos + 1, pos1)]
         IN  IF ~has_pending_write(conn1)
             THEN [conn |-> reset_for_read(conn1), sock |-> sock1,
                   reg |-> reg,
                   counter |-> RpsCounter_increment(cnt, thread_id),
                   to_close |-> tc]
             ELSE do_write_loop_noreregister(conn1, sock1, reg, token, tc, cnt, pos1,
                                chunk, room - n, werr)

RECURSIVE do_write_loop(_, _, _, _, _, _, _, _, _, _)
do_write_loop(conn, sock, reg, token, tc, cnt, current_pos, chunk, room, werr) ==
    IF room = 0
    THEN [conn |-> conn, sock |-> sock, reg |-> reg, counter |-> cnt,
          to_close |-> IF werr THEN Append(tc, token) ELSE tc]
    ELSE LET n == Min(Min(chunk, Len(conn.write_buf) - current_pos), room)
             pos1 == current_pos + n
             conn1 == [conn EXCEPT !.write_pos = Some(pos1)]
             sock1 == [sock EXCEPT !.out =
                          @ \o SubSeq(conn.write_buf, current_pos + 1, pos1)]
         IN  IF ~has_pending_write(conn1)
             THEN [conn |-> reset_for_read(conn1), sock |-> sock1,
                   reg |-> Some([token |-> token, interest |-> "R"]),
                   counter |-> RpsCounter_increment(cnt, thread_id),
                   to_close |-> tc]
             ELSE do_write_loop(conn1, sock1, reg, token, tc, cnt, pos1,
                                chunk, room - n, werr)

(* do_write that writes from the start of the response on every call.      *)
do_write_restart(conn, sock, reg, token, tc, cnt, chunk, room, werr) ==
    IF conn.write_pos = None
    THEN [conn |-> conn, sock |-> sock, reg |-> reg, counter |-> cnt,
          to_close |-> tc]
    ELSE do_write_loop(conn, sock, reg, token, tc, cnt, 0, chunk, room, werr)

do_write(conn, sock, reg, token, tc, cnt, chunk, room, werr) ==
    IF conn.write_pos = None
    THEN [conn |-> conn, sock |-> sock, reg |-> reg, counter |-> cnt,
          to_close |-> tc]
    ELSE do_write_loop(conn, sock, reg, token, tc, cnt,
                       Unwrap(conn.write_pos), chunk, room, werr)


(***************************************************************************)
(* worker.rs: TimeoutEntry and the timeout heap (lines 16-33, 52).  The    *)
(* heap is a bag of entries; `owner` is history: the socket of the         *)
(* connection the entry was pushed for (the code does not store it).       *)
(***************************************************************************)
TimeoutEntry(deadline, token, generation, owner) ==
    [deadline |-> deadline, token |-> token, generation |-> generation,
     owner |-> owner]

HeapPush(heap, e) == heap (+) SetToBag({e})

(* Due with the entries whose deadline is `now` left in the heap.          *)
Due_strict(heap, now_) == {e \in BagToSet(heap) : e.deadline < now_}

Due(heap, now_) == {e \in BagToSet(heap) : e.deadline <= now_}

(* The orders in which BinaryHeap may pop the due entries: by deadline,    *)
(* entries of equal deadline in any order.                                 *)
RECURSIVE PopOrders(_, _)
PopOrders(heap, now_) ==
    LET due == Due(heap, now_) IN
    IF due = {}
    THEN {<<>>}
    ELSE LET firsts == {e \in due : \A f \in due : e.deadline <= f.deadline}
         IN  UNION {{<<e>> \o rest :
                        rest \in PopOrders(heap (-) SetToBag({e}), now_)} :
                    e \in firsts}

RECURSIVE RemoveAll(_, _)
RemoveAll(heap, order) ==
    IF order = <<>> THEN heap
    ELSE RemoveAll(heap (-) SetToBag({Head(order)}), Tail(order))

(* worker.rs lines 75-76: the popped entry closes the connection.          *)
EntryMatches(sl, e) ==
    IsSome(Slab_get(sl, e.token))
        /\ Unwrap(Slab_get(sl, e.token)).generation = e.generation

(* worker.rs lines 70-85: the drain loop, popping in the order `order`.    *)
RECURSIVE timeout_drain(_, _, _)
timeout_drain(sl, order, tc) ==
    IF order = <<>> THEN tc
    ELSE timeout_drain(sl, Tail(order),
                       IF EntryMatches(sl, Head(order))
                       THEN Append(tc, Head(order).token)
                       ELSE tc)

(* History of one drain: for every popped entry that enqueued a           *)
(* connection, its socket and token, how long it had been idle, and the    *)
(* socket the entry had been pushed for.                                   *)
Reaped(sl, order, now_) ==
    {[sock |-> Unwrap(Slab_get(sl, order[i].token)).stream,
      token |-> order[i].token,
      idle |-> now_ - Unwrap(Slab_get(sl, order[i].token)).last_active,
      owner |-> order[i].owner] :
        i \in {k \in 1..Len(order) : EntryMatches(sl, order[k])}}

(***************************************************************************)
(* worker.rs: accept_connections (lines 107-163).  w holds the worker's    *)
(* structures; `queue` the sockets accept() returns, in order; regFail the *)
(* sockets whose registration fails.                                       *)
(***************************************************************************)
(* accept_one that keeps the token when the registration fails.            *)
accept_one_leak(w, s, fail, now_) ==
    LET tp == TokenPool_acquire(w.token_pool)
        dropped == [w.socks EXCEPT ![s].st = "dropped"]
    IN
    IF tp.ret = None
    THEN [w EXCEPT !.socks = dropped]
    ELSE
    LET tok == Unwrap(tp.ret)
        bp == BufPool_acquire(w.buf_pool)
    IN
    IF bp.ret = None
    THEN [w EXCEPT !.token_pool = TokenPool_release(tp.pool, tok),
                   !.socks = dropped]
    ELSE
    LET conn == Conn_new(s, response, Unwrap(bp.ret), now_) IN
    IF fail
    THEN [w EXCEPT !.buf_pool = BufPool_release(bp.pool, conn.read_buf),
                   !.token_pool = tp.pool,
                   !.socks = dropped]
    ELSE [w EXCEPT
            !.token_pool = tp.pool,
            !.buf_pool = bp.pool,
            !.registry[s] = Some([token |-> tok, interest |-> "R"]),
            !.slab = Slab_insert(w.slab, tok, conn),
            !.timeout_heap = HeapPush(w.timeout_heap,
                TimeoutEntry(conn.last_active + CONN_TIMEOUT, tok,
                             conn.generation, s)),
            !.socks[s].st = "open"]

accept_one(w, s, fail, now_) ==
    LET tp == TokenPool_acquire(w.token_pool)
        dropped == [w.socks EXCEPT ![s].st = "dropped"]
    IN
    IF tp.ret = None
    THEN [w EXCEPT !.socks = dropped]
    ELSE
    LET tok == Unwrap(tp.ret)
        bp == BufPool_acquire(w.buf_pool)
    IN
    IF bp.ret = None
    THEN [w EXCEPT !.token_pool = TokenPool_release(tp.pool, tok),
                   !.socks = dropped]
    ELSE
    LET conn == Conn_new(s, response, Unwrap(bp.ret), now_) IN
    IF fail
    THEN [w EXCEPT !.buf_pool = BufPool_release(bp.pool, conn.read_buf),
                   !.token_pool = TokenPool_release(tp.pool, tok),
                   !.socks = dropped]
    ELSE [w EXCEPT
            !.token_pool = tp.pool,
            !.buf_pool = bp.pool,
            !.registry[s] = Some([token |-> tok, interest |-> "R"]),
            !.slab = Slab_insert(w.slab, tok, conn),
            !.timeout_heap = HeapPush(w.timeout_heap,
                TimeoutEntry(conn.last_active + CONN_TIMEOUT, tok,
                             conn.generation, s)),
            !.socks[s].st = "open"]

RECURSIVE accept_connections(_, _, _, _)
accept_connections(w, queue, regFail, now_) ==
    IF queue = <<>> THEN w
    ELSE accept_connections(
             accept_one(w, Head(queue), Head(queue) \in regFail, now_),
             Tail(queue), regFail, now_)

(***************************************************************************)
(* worker.rs: handle_connection (lines 165-202) on a live connection.      *)
(* rd and wr are what the socket answers to this call's reads and writes;  *)
(* wr.rerr1 and wr.rerr2: the reregister call of line 192, of line 257,    *)
(* fails (the result is dropped: the selector keeps the interest it had).  *)
(***************************************************************************)
(* lines 199-201 and the return: mid is the connection, the registration   *)
(* and the close list before the final has_pending_write test, wres what   *)
(* do_write makes of them.                                                 *)
handle_connection_end(w, token, cnt, wr, c0, r, rc, reads1, mid, wres) ==
    LET s == c0.stream
        res == IF ~mid.returned /\ has_pending_write(mid.conn)
               THEN IF has_pending_write(wres.conn)
                    THEN wres
                    ELSE [wres EXCEPT
                            !.reg = IF wr.rerr2 THEN mid.reg ELSE @,
                            !.sock = [@ EXCEPT !.rfailed = wr.rerr2]]
               ELSE [conn |-> mid.conn, sock |-> mid.sock, reg |-> mid.reg,
                     counter |-> cnt, to_close |-> mid.to_close]
    IN  [w |-> [w EXCEPT
                  !.timeout_heap = HeapPush(w.timeout_heap,
                      TimeoutEntry(c0.last_active + CONN_TIMEOUT, token,
                                   c0.generation, s)),
                  !.slab = Slab_insert(w.slab, token, res.conn),
                  !.socks[s] = res.sock,
                  !.registry[s] = res.reg],
         to_close |-> res.to_close,
         counter |-> res.counter,
         \* history: whether line 190 was reached, on what, its result, and
         \* the connection as lines 191-196 left it
         rc |-> IF ~has_pending_write(c0) /\ r.ret
                THEN [called |-> TRUE, ret |-> rc.ret,
                      read_buf |-> r.conn.read_buf, read_len |-> r.conn.read_len,
                      scan_offset |-> r.conn.scan_offset, reads |-> reads1,
                      armed |-> mid.conn]
                ELSE [called |-> FALSE]]

handle_connection_write(w, token, cnt, wr, c0, r, rc, reads1, mid) ==
    handle_connection_end(w, token, cnt, wr, c0, r, rc, reads1, mid,
        do_write(mid.conn, mid.sock, mid.reg, token, mid.to_close,
                 cnt, wr.chunk, wr.room, wr.werr))

(* lines 185-197: r is what do_read returned, rc what request_complete     *)
(* returned, reads1 the socket's count of reads.                           *)
handle_connection_arm(w, token, tc, cnt, wr, c0, r, rc, reads1) ==
    LET s == c0.stream
        rsock == [r.sock EXCEPT !.reads = reads1]
    IN  handle_connection_write(w, token, cnt, wr, c0, r, rc, reads1,
            IF has_pending_write(c0)
            THEN [conn |-> c0, sock |-> w.socks[s], reg |-> w.registry[s],
                  to_close |-> tc, returned |-> FALSE]
            ELSE IF ~r.ret
            THEN [conn |-> r.conn, sock |-> rsock, reg |-> w.registry[s],
                  to_close |-> r.to_close, returned |-> TRUE]
            ELSE IF rc.ret
            THEN [conn |-> arm_write(rc.conn),
                  sock |-> [rsock EXCEPT !.reads = 0, !.rfailed = wr.rerr1],
                  reg |-> IF wr.rerr1 THEN w.registry[s]
                          ELSE Some([token |-> token, interest |-> "RW"]),
                  to_close |-> r.to_close, returned |-> FALSE]
            ELSE [conn |-> rc.conn, sock |-> rsock, reg |-> w.registry[s],
                  to_close |-> r.to_close, returned |-> FALSE])

handle_connection_read(w, token, tc, cnt, wr, c0, r) ==
    handle_connection_arm(w, token, tc, cnt, wr, c0, r,
        request_complete(r.conn),
        IF r.conn.read_len > c0.read_len THEN r.sock.reads + 1
        ELSE r.sock.reads)

(* lines 176-186: c0 is the connection after touch.                        *)
handle_connection_touched(w, token, tc, cnt, rd, wr, c0) ==
    handle_connection_read(w, token, tc, cnt, wr, c0,
        do_read(c0, w.socks[c0.stream], token, tc, rd.chunk, rd.errAfter))

handle_connection(w, token, tc, cnt, now_, rd, wr) ==
    handle_connection_touched(w, token, tc, cnt, rd, wr,
        touch(Unwrap(Slab_get(w.slab, token)), now_))

(***************************************************************************)
(* worker.rs: close_conn (lines 274-286) and the close drain (101-103).    *)
(***************************************************************************)
(* close_conn_trace that releases the token first.                         *)
close_conn_trace_tokenfirst(w, tok, derr) ==
    IF IsSome(Slab_get(w.slab, tok))
    THEN LET c == Unwrap(Slab_get(w.slab, tok))
             w1 == [w EXCEPT !.token_pool = TokenPool_release(w.token_pool, tok)]
             w2 == [w1 EXCEPT !.slab = Slab_remove(w.slab, tok)]
             w3 == IF derr THEN w2 ELSE [w2 EXCEPT !.registry[c.stream] = None]
             w4 == [w3 EXCEPT !.buf_pool = BufPool_release(w.buf_pool, c.read_buf)]
             w5 == [w4 EXCEPT !.registry[c.stream] = None,
                              !.socks[c.stream].st = "closed"]
         IN  <<w, w1, w2, w3, w4, w5>>
    ELSE <<w>>

(* close_conn statement by statement: the worker before the call and after *)
(* slab.remove (line 281), deregister (282; derr: it fails, the result is  *)
(* dropped), buf_pool.release (283), token_pool.release (284), and after   *)
(* the connection, and with it the socket, is dropped (285).               *)
close_conn_trace(w, tok, derr) ==
    IF IsSome(Slab_get(w.slab, tok))
    THEN LET c == Unwrap(Slab_get(w.slab, tok))
             w1 == [w EXCEPT !.slab = Slab_remove(w.slab, tok)]
             w2 == IF derr THEN w1 ELSE [w1 EXCEPT !.registry[c.stream] = None]
             w3 == [w2 EXCEPT !.buf_pool = BufPool_release(w.buf_pool, c.read_buf)]
             w4 == [w3 EXCEPT !.token_pool = TokenPool_release(w.token_pool, tok)]
             w5 == [w4 EXCEPT !.registry[c.stream] = None,
                              !.socks[c.stream].st = "closed"]
         IN  <<w, w1, w2, w3, w4, w5>>
    ELSE <<w>>

(* close_conn releasing the token and a buffer also when the slot is       *)
(* empty.                                                                  *)
close_conn_unguarded(w, tok) ==
    IF IsSome(Slab_get(w.slab, tok))
    THEN LET c == Unwrap(Slab_get(w.slab, tok)) IN
         [w EXCEPT !.slab = Slab_remove(w.slab, tok),
                   !.registry[c.stream] = None,
                   !.buf_pool = BufPool_release(w.buf_pool, c.read_buf),
                   !.token_pool = TokenPool_release(w.token_pool, tok),
                   !.socks[c.stream].st = "closed"]
    ELSE [w EXCEPT !.buf_pool = BufPool_release(w.buf_pool, ZeroBuf),
                   !.token_pool = TokenPool_release(w.token_pool, tok)]

(* close_conn as one step: the worker when the call has returned.          *)
close_conn(w, tok) ==
    IF IsSome(Slab_get(w.slab, tok))
    THEN LET c == Unwrap(Slab_get(w.slab, tok)) IN
         [w EXCEPT !.slab = Slab_remove(w.slab, tok),
                   !.registry[c.stream] = None,
                   !.buf_pool = BufPool_release(w.buf_pool, c.read_buf),
                   !.token_pool = TokenPool_release(w.token_pool, tok),
                   !.socks[c.stream].st = "closed"]
    ELSE w

RECURSIVE close_drain(_, _)
close_drain(w, tc) ==
    IF tc = <<>> THEN w
    ELSE close_drain(close_conn(w, Head(tc)), Tail(tc))


(***************************************************************************)
(* The worker's structures as one record, and back.                        *)
(***************************************************************************)
World ==
    [slab |-> slab, token_pool |-> token_pool, buf_pool |-> buf_pool,
     timeout_heap |-> timeout_heap, registry |-> registry, socks |-> socks]

SetWorld(w) ==
    /\ slab' = w.slab
    /\ token_pool' = w.token_pool
    /\ buf_pool' = w.buf_pool
    /\ timeout_heap' = w.timeout_heap
    /\ registry' = w.registry
    /\ socks' = w.socks

stats_vars == <<incs, pusher>>

wheel_vars == <<wheel, wheel_h>>

harness_vars == <<h_loaned, h_held, h_ret, stats_vars, wheel_vars, loop_vars>>

(* The inputs a socket may give one handle_connection call (combinations   *)
(* that give the same sequence of socket results are listed once).         *)
ReadInputs ==
    {rd \in [chunk : {1, BUF_SIZE}, errAfter : {-1, 0}] :
        rd.errAfter = 0 => rd.chunk = BUF_SIZE}
WriteInputs ==
    {wr \in [chunk : {1, RESP_LEN}, room : 0..RESP_LEN, werr : BOOLEAN,
             rerr1 : {FALSE}, rerr2 : {FALSE}] :
        /\ wr.room <= 1 => wr.chunk = 1
        /\ wr.room = RESP_LEN => ~wr.werr}

(* The same, with reregister calls that may fail.                          *)
ReregWriteInputs ==
    {[wr EXCEPT !.rerr1 = e1, !.rerr2 = e2] :
        wr \in WriteInputs, e1 \in BOOLEAN, e2 \in BOOLEAN}

(* Reads that end in would-block or fail at once; writes that take the     *)
(* whole response or nothing.                                              *)
WholeReads == {rd \in ReadInputs : rd.chunk = BUF_SIZE}
WholeWrites == {wr \in WriteInputs : wr.room \in {0, RESP_LEN}}

(* Tokens the selector may report: the listener when a connection is       *)
(* pending, and every registered socket's token.                           *)
ReadyTokens ==
    (IF backlog # <<>> THEN {SERVER_TOKEN} ELSE {})
        \cup {Unwrap(registry[s]).token : s \in {x \in Clients : IsSome(registry[x])}}

(***************************************************************************)
(* worker.rs: the loop body (lines 58-104).                                *)
(***************************************************************************)
(* The tokens of ReadyTokens whose socket has something for the worker: a  *)
(* connection to accept, bytes to read, the peer's close, or interest in   *)
(* writing.                                                                *)
ActiveTokens ==
    (IF backlog # <<>> THEN {SERVER_TOKEN} ELSE {})
        \cup {Unwrap(registry[s]).token :
                 s \in {x \in Clients :
                           /\ IsSome(registry[x])
                           /\ \/ socks[x].inbuf # <<>>
                              \/ socks[x].fin
                              \/ Unwrap(registry[x]).interest = "RW"}}

(* lines 59-65: poll returns a batch of events for tokens among `ready`.   *)
Poll(cap, ready) ==
    /\ pc = "poll"
    /\ \E evs \in SUBSET ready :
          /\ BagCardinality(timeout_heap) + Cardinality(evs \ {SERVER_TOKEN})
                + (IF SERVER_TOKEN \in evs THEN Len(backlog) ELSE 0) <= cap
          /\ events' = evs
    /\ pc' = "timeouts"
    /\ UNCHANGED <<clock, poll_start, now, slab, token_pool, buf_pool, to_close,
                   timeout_heap, registry, backlog, socks, counter, reaped, last_rc, harness_vars>>

(* lines 67-85: clear the close list, read the clock, drain due timeouts.  *)
TimeoutDrain ==
    /\ pc = "timeouts"
    /\ now' = clock
    /\ \E order \in PopOrders(timeout_heap, clock) :
          /\ to_close' = timeout_drain(slab, order, <<>>)
          /\ timeout_heap' = RemoveAll(timeout_heap, order)
          /\ reaped' = Reaped(slab, order, clock)
    /\ pc' = "dispatch"
    /\ UNCHANGED <<clock, poll_start, events, slab, token_pool, buf_pool,
                   registry, backlog, socks, counter, last_rc, harness_vars>>

(* lines 89-94: the listener's event.  accept() returns the first k        *)
(* pending sockets, then would-block (k = all) or an error; registration   *)
(* may fail for the sockets in `failing`.                                  *)
DispatchAccept(failing) ==
    /\ pc = "dispatch"
    /\ SERVER_TOKEN \in events
    /\ \E k \in 0..Len(backlog), regFail \in SUBSET failing :
          /\ regFail \subseteq {backlog[i] : i \in 1..k}
          /\ SetWorld(accept_connections(World, SubSeq(backlog, 1, k),
                                         regFail, clock))
          /\ backlog' = SubSeq(backlog, k + 1, Len(backlog))
    /\ events' = events \ {SERVER_TOKEN}
    /\ UNCHANGED <<clock, poll_start, now, pc, to_close, counter, reaped, last_rc, harness_vars>>

(* lines 95-97: a connection's event; rds and wrs are the answers its      *)
(* socket may give.                                                        *)
DispatchConn(rds, wrs) ==
    /\ pc = "dispatch"
    /\ \E token \in events \ {SERVER_TOKEN} :
          /\ events' = events \ {token}
          /\ IF IsSome(Slab_get(slab, token))
             THEN \E rd \in rds, wr \in wrs :
                     \E h \in {handle_connection(World, token, to_close,
                                                  counter, clock, rd, wr)} :
                         /\ SetWorld(h.w)
                         /\ to_close' = h.to_close
                         /\ counter' = h.counter
                         /\ last_rc' = h.rc
             ELSE UNCHANGED <<slab, token_pool, buf_pool, timeout_heap,
                              registry, socks, to_close, counter, last_rc>>
    /\ UNCHANGED <<clock, poll_start, now, pc, backlog, reaped, harness_vars>>

(* lines 101-103: drain the close list; the next poll is entered.          *)
CloseDrain ==
    /\ pc = "dispatch"
    /\ events = {}
    /\ SetWorld(close_drain(World, to_close))
    /\ to_close' = <<>>
    /\ pc' = "poll"
    /\ poll_start' = clock
    /\ last_rc' = [called |-> FALSE]
    /\ UNCHANGED <<clock, now, events, backlog, counter, reaped, harness_vars>>

(***************************************************************************)
(* The environment: time and the clients.  A handler looks at its own      *)
(* socket only, so what the clients do between two polls is taken to       *)
(* happen while the worker is in poll.                                     *)
(***************************************************************************)
(* Time passes while the worker is in poll, which returns within           *)
(* POLL_TIMEOUT; the handlers run in no time.                              *)
Tick ==
    /\ clock < MaxTime
    /\ pc = "poll"
    /\ clock - poll_start < POLL_TIMEOUT
    /\ clock' = clock + 1
    /\ UNCHANGED <<poll_start, now, pc, events, slab, token_pool, buf_pool,
                   to_close, timeout_heap, registry, backlog, socks, counter,
                   reaped, last_rc, harness_vars>>

(* Clients connect in the order of their numbers.                          *)
Connect ==
    /\ pc = "poll"
    /\ \E c \in Clients :
          /\ socks[c].st = "new"
          /\ \A d \in Clients : d < c => socks[d].st # "new"
          /\ socks' = [socks EXCEPT ![c].st = "backlog"]
          /\ backlog' = Append(backlog, c)
    /\ UNCHANGED <<clock, poll_start, now, pc, events, slab, token_pool,
                   buf_pool, to_close, timeout_heap, registry, counter,
                   reaped, last_rc, harness_vars>>

(* The next k bytes a client sends arrive at its socket.                   *)
Deliver(sizes) ==
    /\ pc = "poll"
    /\ \E c \in Clients :
          /\ socks[c].st \in {"backlog", "open"}
          /\ \E k \in sizes \cap (1..Len(socks[c].script)) :
                socks' = [socks EXCEPT
                    ![c].inbuf = @ \o SubSeq(socks[c].script, 1, k),
                    ![c].script = SubSeq(@, k + 1, Len(@))]
    /\ UNCHANGED <<clock, poll_start, now, pc, events, slab, token_pool,
                   buf_pool, to_close, timeout_heap, registry, backlog,
                   counter, reaped, last_rc, harness_vars>>

(* A client closes its end; what it had not sent is never sent.            *)
ClientClose ==
    /\ pc = "poll"
    /\ \E c \in Clients :
          /\ socks[c].st \in {"backlog", "open"}
          /\ ~socks[c].fin
          /\ socks' = [socks EXCEPT ![c].fin = TRUE, ![c].script = <<>>]
    /\ UNCHANGED <<clock, poll_start, now, pc, events, slab, token_pool,
                   buf_pool, to_close, timeout_heap, registry, backlog,
                   counter, reaped, last_rc, harness_vars>>

(***************************************************************************)
(* timer.rs: TimerWheel.  Time is counted in units of which SLOT_DURATION  *)
(* make one second (the source counts milliseconds); WHEEL_SIZE is scaled  *)
(* down from 64, and `& WHEEL_MASK` is the remainder modulo WHEEL_SIZE.    *)
(* An entry is <<token, generation>>.                                      *)
(***************************************************************************)
WHEEL_SIZE == 4
WHEEL_MASK == WHEEL_SIZE - 1
SLOT_DURATION == 2

(* new: timeout is in whole seconds, now_ the value of Instant::now().     *)
TimerWheel_new(timeout, now_) ==
    [slots |-> [i \in 0..(WHEEL_SIZE - 1) |-> <<>>],
     cursor |-> 0,
     last_tick |-> now_,
     timeout_slots |-> Min(timeout + 1, WHEEL_MASK)]

(* add that places the entry timeout seconds, not timeout_slots, ahead.    *)
TimerWheel_add_exact(w, token, generation) ==
    LET slot == (w.cursor + w.timeout_slots - 1) % WHEEL_SIZE IN
    [w EXCEPT !.slots[slot] = Append(@, <<token, generation>>)]

TimerWheel_add(w, token, generation) ==
    LET slot == (w.cursor + w.timeout_slots) % WHEEL_SIZE IN
    [w EXCEPT !.slots[slot] = Append(@, <<token, generation>>)]

(* lines 38-41: the loop body, `ticks` times.                              *)
RECURSIVE TimerWheel_rotate(_, _, _)
TimerWheel_rotate(w, out, ticks) ==
    IF ticks = 0 THEN [wheel |-> w, out |-> out]
    ELSE LET cur == (w.cursor + 1) % WHEEL_SIZE IN
         TimerWheel_rotate([w EXCEPT !.cursor = cur, !.slots[cur] = <<>>],
                           out \o w.slots[cur], ticks - 1)

(* advance: the wheel after the call and `out` as the call extended it.    *)
TimerWheel_advance(w, now_, out) ==
    LET elapsed == now_ - w.last_tick
        ticks == Min(elapsed \div SLOT_DURATION, WHEEL_SIZE)
    IN  IF ticks = 0
        THEN [wheel |-> w, out |-> out]
        ELSE LET r == TimerWheel_rotate(w, out, ticks) IN
             [wheel |-> [r.wheel EXCEPT !.last_tick = @ + SLOT_DURATION * ticks],
              out |-> r.out]

(* The wheel's caller: the time, the time of its last advance call (the    *)
(* wheel's creation before the first), and for every add made, in order:   *)
(* the time T of the call, the wheel's cursor and last_tick at the call,   *)
(* whether advance had been called at that same time and whether it has    *)
(* been called since, the time of the advance call that emitted the entry  *)
(* (-1: none yet) and of the advance call before that one, and whether the *)
(* emitting call was the first since the add.                              *)
WheelHistory_new == [now |-> 0, last_adv |-> 0, adds |-> <<>>]

(***************************************************************************)
(* counter.rs: the pusher thread of spawn_stats_pusher (lines 54-60).      *)
(* pc: "sleep" (line 57), "total" (inside counter.total(), line 59; i is   *)
(* the slot to load next, acc the sum so far) or "dead" (panicked); prev:  *)
(* the local `prev`.  History: seen[w], the increment(w) calls the last    *)
(* load of slot w had seen; emit, the last tick's total, prev and delta,   *)
(* with `counted`, the increments the total saw that the total before it   *)
(* had not seen; sum, the deltas emitted so far added up.                  *)
(***************************************************************************)
Pusher_new ==
    [pc |-> "sleep", i |-> 0, acc |-> 0, prev |-> 0,
     seen |-> [w \in 0..(NumWorkers - 1) |-> 0],
     seen_prev |-> [w \in 0..(NumWorkers - 1) |-> 0],
     emit |-> [ticks |-> 0, total |-> 0, prev |-> 0, delta |-> 0,
               counted |-> 0],
     sum |-> 0]

(***************************************************************************)
(* worker.rs: one handle_connection call (lines 165-202) taken turn by     *)
(* turn of the loops of do_read and do_write.  pc: "poll" (the worker is   *)
(* in poll), "do_read" and "do_write" (at the head of the loop at line 205 *)
(* or 248), "complete" (do_read has returned true, line 190 is next) or    *)
(* "drain" (handle_connection has returned, the close drain is next);      *)
(* open: the connection is in the slab.  History: turn, the parity of the  *)
(* number of turns the loop has made in this call.                         *)
(***************************************************************************)
Call_new ==
    [pc |-> "poll", open |-> TRUE,
     conn |-> Conn_new(1, response, ZeroBuf, 0),
     to_close |-> <<>>, counter |-> RpsCounter_new(NumWorkers), turn |-> 0]

(***************************************************************************)
(* Spec: the reactor with TimedClients clients, each sending one request   *)
(* in one piece, while time passes.  poll may report any registered token; *)
(* reads and writes transfer everything or nothing; registration may fail. *)
(***************************************************************************)
InitWorker ==
    /\ clock = 0
    /\ poll_start = 0
    /\ now = 0
    /\ pc = "poll"
    /\ events = {}
    /\ slab = Slab_new(MAX_CONNS)
    /\ token_pool = TokenPool_new
    /\ buf_pool = BufPool_new(MAX_CONNS, MAX_RECYCLED_BUFS)
    /\ to_close = <<>>
    /\ timeout_heap = EmptyBag
    /\ registry = [s \in Clients |-> None]
    /\ backlog = <<>>
    /\ counter = RpsCounter_new(NumWorkers)
    /\ reaped = {}
    /\ last_rc = [called |-> FALSE]
    /\ h_loaned = <<>>
    /\ h_held = {}
    /\ h_ret = [op |-> "none"]
    /\ incs = [w \in 0..(NumWorkers - 1) |-> 0]
    /\ pusher = Pusher_new
    /\ wheel = TimerWheel_new(CONN_TIMEOUT, 0)
    /\ wheel_h = WheelHistory_new
    /\ call = Call_new

Client(script) == [Sock_new(script) EXCEPT !.st = "new"]

Init ==
    /\ InitWorker
    /\ socks = [c \in Clients |->
                  IF c <= TimedClients THEN Client(TERMINATOR) ELSE Sock_new(<<>>)]

Next ==
    \/ Poll(MaxHeap, ReadyTokens)
    \/ TimeoutDrain
    \/ DispatchAccept(Clients)
    \/ DispatchConn(WholeReads, WholeWrites)
    \/ CloseDrain
    \/ Tick
    \/ Connect
    \/ Deliver({Len(TERMINATOR)})
    \/ ClientClose

Spec == Init /\ [][Next]_vars


(***************************************************************************)
(* PoolSpec: the two pools under a client that calls acquire and release   *)
(* in any order.  h_loaned: the buffers out on loan; h_held: the tokens    *)
(* held; h_ret: the last call, what it returned and what the pool was      *)
(* before it.  Buffers are released only while on loan (Rust moves the     *)
(* Box into release); any token value may be released.                     *)
(***************************************************************************)
HBufAcquire ==
    /\ LET r == BufPool_acquire(buf_pool) IN
          /\ buf_pool' = r.pool
          /\ h_loaned' = IF IsSome(r.ret) THEN Append(h_loaned, Unwrap(r.ret))
                         ELSE h_loaned
          /\ h_ret' = [op |-> "buf_acquire", none |-> (r.ret = None),
                       pre_active |-> buf_pool.active]
    /\ UNCHANGED <<token_pool, h_held, reactor_vars, loop_vars, stats_vars, wheel_vars>>

HBufRelease ==
    /\ h_loaned # <<>>
    /\ buf_pool' = BufPool_release(buf_pool, Head(h_loaned))
    /\ h_loaned' = Tail(h_loaned)
    /\ h_ret' = [op |-> "buf_release"]
    /\ UNCHANGED <<token_pool, h_held, reactor_vars, loop_vars, stats_vars, wheel_vars>>

HTokAcquire ==
    /\ LET r == TokenPool_acquire(token_pool) IN
          /\ token_pool' = r.pool
          /\ h_held' = IF IsSome(r.ret) THEN h_held \cup {Unwrap(r.ret)}
                       ELSE h_held
          /\ h_ret' = [op |-> "tok_acquire", none |-> (r.ret = None),
                       dup |-> (IsSome(r.ret) /\ Unwrap(r.ret) \in h_held),
                       pre_next |-> token_pool.next,
                       pre_free |-> token_pool.free]
    /\ UNCHANGED <<buf_pool, h_loaned, reactor_vars, loop_vars, stats_vars, wheel_vars>>

HTokRelease ==
    /\ \E t \in 0..MAX_CONNS :
          /\ token_pool' = TokenPool_release(token_pool, t)
          /\ h_held' = h_held \ {t}
          /\ h_ret' = [op |-> "tok_release", tok |-> t,
                       was_held |-> (t \in h_held)]
    /\ UNCHANGED <<buf_pool, h_loaned, reactor_vars, loop_vars, stats_vars, wheel_vars>>

PoolInit ==
    /\ InitWorker
    /\ socks = [c \in Clients |-> Sock_new(<<>>)]

PoolNext == HBufAcquire \/ HBufRelease \/ HTokAcquire \/ HTokRelease

PoolSpec == PoolInit /\ [][PoolNext]_vars

(***************************************************************************)
(* C6: under valid use of BufPool, active is the number of buffers on      *)
(* loan, active <= max_active, acquire returns none exactly when active =  *)
(* max_active, and the free list holds at most max_recycled buffers.       *)
(***************************************************************************)
C6_BufPoolConservation ==
    /\ buf_pool.active = Len(h_loaned)
    /\ buf_pool.active <= buf_pool.max_active
    /\ Len(buf_pool.free) <= buf_pool.max_recycled
    /\ h_ret.op = "buf_acquire" =>
          (h_ret.none <=> h_ret.pre_active = buf_pool.max_active)

(* Every buffer the pool may lend is on loan and acquire has just         *)
(* returned none.                                                          *)
C6_Witness ==
    /\ h_ret.op = "buf_acquire"
    /\ h_ret.none
    /\ Len(h_loaned) = MAX_CONNS
    /\ buf_pool.free = <<>>

(***************************************************************************)
(* C7: for any sequence of TokenPool calls, every token held is in         *)
(* 1..MAX_CONNS-1, no token is handed out while held, the free list holds  *)
(* no held token and no token twice, next <= MAX_CONNS, and acquire        *)
(* returns none exactly when next = MAX_CONNS and the free list is empty.  *)
(***************************************************************************)
C7_TokenPoolInvariant ==
    /\ \A t \in h_held : 1 <= t /\ t < MAX_CONNS
    /\ h_ret.op = "tok_acquire" => ~h_ret.dup
    /\ \A i \in 1..Len(token_pool.free) :
          /\ token_pool.free[i] \notin h_held
          /\ \A j \in 1..Len(token_pool.free) :
                token_pool.free[i] = token_pool.free[j] => i = j
    /\ token_pool.next <= MAX_CONNS
    /\ h_ret.op = "tok_acquire" =>
          (h_ret.none <=> (h_ret.pre_next = MAX_CONNS /\ h_ret.pre_free = <<>>))

(* Every token is held and acquire has just returned none.                 *)
C7_Witness ==
    /\ h_ret.op = "tok_acquire"
    /\ h_ret.none
    /\ h_held = 1..(MAX_CONNS - 1)


(***************************************************************************)
(* C1: the timeout drain enqueues a connection for close only when it has  *)
(* been idle for at least CONN_TIMEOUT (no touch since the popped entry    *)
(* was scheduled).                                                         *)
(***************************************************************************)
C1_TimeoutOnlyWhenIdle ==
    \A r \in reaped : r.idle >= CONN_TIMEOUT

(***************************************************************************)
(* C2: an entry pushed for a connection that has since been closed never   *)
(* enqueues the connection later accepted under the same token.            *)
(***************************************************************************)
C2_StaleEntryDiscarded ==
    \A r \in reaped : r.owner = r.sock

LiveTokens == {t \in Tokens : IsSome(Slab_get(slab, t))}

FreeTokens == {token_pool.free[i] : i \in 1..Len(token_pool.free)}

Requests == {TERMINATOR, <<XX>> \o TERMINATOR}

TwoRequests == {r1 \o TERMINATOR : r1 \in Requests}

ReqScripts ==
    TwoRequests \cup
        {<<CR, LF, XX, CR, LF, CR, LF>>,
         <<CR, CR, LF, CR, LF, XX>>,
         <<CR, LF, CR, XX, LF>>,
         <<LF, CR, LF, CR, CR, LF>>}

ReqInit ==
    /\ InitWorker
    /\ \E sc \in ReqScripts :
          socks = [c \in Clients |-> IF c = 1 THEN Client(sc) ELSE Sock_new(<<>>)]

ReqNext ==
    \/ Poll(ReqHeap, ActiveTokens)
    \/ TimeoutDrain
    \/ DispatchAccept({})
    \/ DispatchConn(ReadInputs, WriteInputs)
    \/ CloseDrain
    \/ Connect
    \/ Deliver(1..BUF_SIZE)
    \/ ClientClose

ReqSpec == ReqInit /\ [][ReqNext]_vars

(* The connection record serving socket s, as an Option.                   *)
ConnOf(s) ==
    IF IsSome(registry[s])
    THEN Slab_get(slab, Unwrap(registry[s]).token)
    ELSE None

(* The complete requests in the bytes b: the terminators in b, counted     *)
(* from the left without overlap.                                          *)
RECURSIVE CompleteRequests(_)
CompleteRequests(b) ==
    IF Len(b) < Len(TERMINATOR) THEN 0
    ELSE IF SubSeq(b, 1, Len(TERMINATOR)) = TERMINATOR
    THEN 1 + CompleteRequests(SubSeq(b, Len(TERMINATOR) + 1, Len(b)))
    ELSE CompleteRequests(Tail(b))

(* The responses of which socket s was sent the last byte, and those of    *)
(* which it was sent a byte or for which its connection is in Writing.     *)
ResponsesCompleted(s) == Len(socks[s].out) \div RESP_LEN

ResponsesStarted(s) ==
    ResponsesCompleted(s)
        + (IF \/ Len(socks[s].out) % RESP_LEN > 0
              \/ (IsSome(ConnOf(s)) /\ IsSome(Unwrap(ConnOf(s)).write_pos))
           THEN 1 ELSE 0)

(***************************************************************************)
(* C4: once the server has read the two back-to-back requests of a client  *)
(* that stays connected and the connection is in Reading again at the end  *)
(* of a loop iteration, however the bytes were split across reads, the     *)
(* socket was sent two responses and the worker's counter slot is 2.       *)
(***************************************************************************)
C4_PipelinedRequestsAnswered ==
    \A s \in Clients :
        (/\ pc = "poll"
         /\ socks[s].st = "open"
         /\ socks[s].rcvd \in TwoRequests
         /\ IsSome(ConnOf(s))
         /\ Unwrap(ConnOf(s)).write_pos = None)
        => /\ socks[s].out = response \o response
           /\ counter[thread_id] = 2

(***************************************************************************)
(* C8: a socket is never sent a byte of more responses than it has sent    *)
(* complete requests: the responses started on it (written in part or in   *)
(* full, or armed) never outnumber the complete requests in the bytes read *)
(* from it, and bytes are armed for writing only in a call in which        *)
(* request_complete returned true.                                         *)
(***************************************************************************)
C8_NoWriteBeforeRequestComplete ==
    /\ \A s \in Clients :
          ResponsesStarted(s) <= CompleteRequests(socks[s].rcvd)
    /\ last_rc.called =>
          (IsSome(last_rc.armed.write_pos) => last_rc.ret)

(* The second response is under way, after a would-block, on a socket that *)
(* has sent exactly two complete requests.                                 *)
C8_Witness ==
    \E s \in Clients :
        /\ IsSome(ConnOf(s))
        /\ Unwrap(ConnOf(s)).write_pos = Some(1)
        /\ ResponsesStarted(s) = 2
        /\ CompleteRequests(socks[s].rcvd) = 2

RECURSIVE SumCompleted(_)
SumCompleted(S) ==
    IF S = {} THEN 0
    ELSE LET s == CHOOSE x \in S : TRUE
         IN  ResponsesCompleted(s) + SumCompleted(S \ {s})

(***************************************************************************)
(* C9: the worker's counter slot is the number of responses written in     *)
(* full on its connections, the other slots stay 0, and a live connection  *)
(* is in Writing (write_pos present, below the response length, equal to   *)
(* the bytes of the current response already sent, interest read+write)    *)
(* or back in Reading with every response it started written in full       *)
(* (write_pos absent, interest read).                                      *)
(***************************************************************************)
C9_CounterCountsResponses ==
    /\ counter[thread_id] = SumCompleted(Clients)
    /\ \A w \in DOMAIN counter : w # thread_id => counter[w] = 0
    /\ \A s \in Clients :
          IsSome(ConnOf(s)) =>
              LET c == Unwrap(ConnOf(s)) IN
              IF IsSome(c.write_pos)
              THEN /\ Unwrap(c.write_pos) < RESP_LEN
                   /\ Unwrap(c.write_pos) = Len(socks[s].out) % RESP_LEN
                   /\ Unwrap(registry[s]).interest = "RW"
              ELSE /\ Len(socks[s].out) % RESP_LEN = 0
                   /\ Unwrap(registry[s]).interest = "R"

(* One response was written in full and counted; the next is written in    *)
(* part, its write having met a would-block.                               *)
C9_Witness ==
    /\ counter[thread_id] = 1
    /\ \E s \in Clients :
          /\ IsSome(ConnOf(s))
          /\ Unwrap(ConnOf(s)).write_pos = Some(1)
          /\ Len(socks[s].out) = RESP_LEN + 1

(* The terminator occurs in buf[..len].                                    *)
ContainsTerminator(buf, len) ==
    \E i \in 1..(len - 3) : SubSeq(buf, i, i + 3) = TERMINATOR

(***************************************************************************)
(* C10: every request_complete call handle_connection makes returns true   *)
(* iff the terminator occurs in read_buf[..read_len], however the bytes    *)
(* were split across reads; when it returns true the connection is armed   *)
(* with read_len = 0, and read_len is 0 as long as write_pos is present.   *)
(***************************************************************************)
C10_RequestCompleteIffTerminator ==
    /\ last_rc.called =>
          /\ last_rc.ret <=>
                ContainsTerminator(last_rc.read_buf, last_rc.read_len)
          /\ last_rc.ret =>
                /\ last_rc.armed.read_len = 0
                /\ last_rc.armed.write_pos = Some(0)
    /\ \A s \in Clients :
          (IsSome(ConnOf(s)) /\ IsSome(Unwrap(ConnOf(s)).write_pos))
              => Unwrap(ConnOf(s)).read_len = 0

(* request_complete returned true on a terminator that arrived one byte    *)
(* per read, in four reads, behind a byte of an earlier read.              *)
C10_Witness ==
    /\ last_rc.called
    /\ last_rc.ret
    /\ last_rc.reads = 5
    /\ last_rc.read_len = 5
    /\ last_rc.scan_offset > 0

(***************************************************************************)
(* AdmitSpec: more clients than MAX_CONNS, none sending anything, all      *)
(* within one tick of the clock; registration never fails.                 *)
(***************************************************************************)
AdmitHeap == MAX_CONNS + 1

AdmitInit ==
    /\ InitWorker
    /\ socks = [c \in Clients |-> Client(<<>>)]

AdmitNext ==
    \/ Poll(AdmitHeap, ReadyTokens)
    \/ TimeoutDrain
    \/ DispatchAccept({})
    \/ DispatchConn(WholeReads, WholeWrites)
    \/ CloseDrain
    \/ Connect
    \/ ClientClose

AdmitSpec == AdmitInit /\ [][AdmitNext]_vars

(* No connection has been closed and no client has closed its end.         *)
NoClose == \A c \in Clients : socks[c].st # "closed" /\ ~socks[c].fin

(* Client c is admitted: its socket is registered and its record is in the *)
(* slab under its token.                                                   *)
Admitted(c) ==
    /\ socks[c].st = "open"
    /\ IsSome(ConnOf(c))
    /\ Unwrap(ConnOf(c)).stream = c

(* The pools account for the live connections, and for nothing else.       *)
PoolAccounting ==
    /\ \A t \in Tokens : token_pool.in_use[t] <=> t \in LiveTokens
    /\ FreeTokens \cap LiveTokens = {}
    /\ token_pool.next - 1 - Len(token_pool.free) = Cardinality(LiveTokens)
    /\ buf_pool.active = Cardinality(LiveTokens)

(* A step in which the listener's event is handled leaves every admitted   *)
(* connection's record as it was, and leaves both pools as they were when  *)
(* it admits nobody.                                                       *)
AcceptLeavesOthers ==
    (SERVER_TOKEN \in events /\ SERVER_TOKEN \notin events') =>
        /\ \A t \in LiveTokens : slab'[t] = slab[t]
        /\ (\A c \in Clients : socks'[c].st = "open" => socks[c].st = "open")
              => (token_pool' = token_pool /\ buf_pool' = buf_pool)

Filler(n) == [i \in 1..n |-> XX]

OversizeScripts ==
    {Filler(MAX_REQUEST_SIZE),
     Filler(MAX_REQUEST_SIZE + 1),
     Filler(MAX_REQUEST_SIZE - Len(TERMINATOR)) \o TERMINATOR}

OversizeInit ==
    /\ InitWorker
    /\ \E sc \in OversizeScripts :
          socks = [c \in Clients |-> IF c = 1 THEN Client(sc) ELSE Sock_new(<<>>)]

OversizeSpec == OversizeInit /\ [][ReqNext]_vars

(* The elements of a sequence.                                             *)
Range(q) == {q[i] : i \in 1..Len(q)}

(***************************************************************************)
(* C11: a live connection whose read_len has reached MAX_REQUEST_SIZE is   *)
(* enqueued for close; a socket from which MAX_REQUEST_SIZE bytes were     *)
(* read, with no complete request before the last of them, is never sent   *)
(* a byte, and once the iteration has ended it is closed and, it being the *)
(* only connection, no buffer is on loan and no token is held.             *)
(***************************************************************************)
C11_OversizedRequestClosed ==
    /\ \A t \in LiveTokens :
          Unwrap(Slab_get(slab, t)).read_len >= MAX_REQUEST_SIZE
              => t \in Range(to_close)
    /\ \A s \in Clients :
          (/\ Len(socks[s].rcvd) >= MAX_REQUEST_SIZE
           /\ CompleteRequests(SubSeq(socks[s].rcvd, 1, MAX_REQUEST_SIZE - 1)) = 0)
          => /\ socks[s].out = <<>>
             /\ pc = "poll" =>
                   /\ socks[s].st = "closed"
                   /\ LiveTokens = {}
                   /\ buf_pool.active = 0
                   /\ \A t \in Tokens : ~token_pool.in_use[t]

(* The server has read MAX_REQUEST_SIZE bytes that end in a terminator     *)
(* from a peer that has not closed, and has closed the connection without  *)
(* a response.                                                             *)
C11_Witness ==
    /\ pc = "poll"
    /\ \E s \in Clients :
          /\ socks[s].rcvd = Filler(MAX_REQUEST_SIZE - Len(TERMINATOR)) \o TERMINATOR
          /\ ~socks[s].fin
          /\ socks[s].st = "closed"
          /\ socks[s].out = <<>>
    /\ buf_pool.active = 0


(***************************************************************************)
(* CounterSpec: NumWorkers workers that call increment, each with its own  *)
(* thread_id (worker.rs line 255), and the pusher thread, interleaved in   *)
(* any way.                                                                *)
(***************************************************************************)
RECURSIVE SumSlots(_, _)
SumSlots(f, n) == IF n = 0 THEN 0 ELSE f[n - 1] + SumSlots(f, n - 1)

TotalIncs == SumSlots(incs, NumWorkers)

(* worker w: counter.increment(thread_id), an atomic fetch_add.            *)
WorkerIncrement ==
    /\ TotalIncs < MaxIncs
    /\ \E w \in 0..(NumWorkers - 1) :
          /\ counter' = RpsCounter_increment(counter, w)
          /\ incs' = [incs EXCEPT ![w] = @ + 1]
    /\ UNCHANGED <<clock, poll_start, now, pc, events, slab, token_pool,
                   buf_pool, to_close, timeout_heap, registry, backlog, socks,
                   reaped, last_rc, h_loaned, h_held, h_ret, pusher, wheel_vars,
                   loop_vars>>

(* line 57 to 59: the sleep ends and counter.total() is entered.           *)
PusherWake ==
    /\ pusher.pc = "sleep"
    /\ pusher' = [pusher EXCEPT !.pc = "total", !.i = 0, !.acc = 0]
    /\ UNCHANGED <<reactor_vars, loop_vars, h_loaned, h_held, h_ret, buf_pool, token_pool, incs,
                   wheel_vars>>

(* total(), one slot: a relaxed load returns the slot as it was after n    *)
(* increments, n not below what the pusher's last load of the slot saw;    *)
(* the sum adds it, and on overflow wraps (overflow checks off) or panics  *)
(* (overflow checks on).                                                   *)
PusherLoad ==
    /\ pusher.pc = "total"
    /\ pusher.i < NumWorkers
    /\ \E n \in pusher.seen[pusher.i]..incs[pusher.i] :
          LET v == n % COUNTER_MOD
              over == pusher.acc + v >= COUNTER_MOD
          IN  \E outcome \in (IF over THEN {"wrap", "panic"} ELSE {"fits"}) :
                 pusher' =
                    IF outcome = "panic"
                    THEN [pusher EXCEPT !.pc = "dead"]
                    ELSE [pusher EXCEPT !.acc = (pusher.acc + v) % COUNTER_MOD,
                                        !.seen[pusher.i] = n,
                                        !.i = @ + 1]
    /\ UNCHANGED <<reactor_vars, loop_vars, h_loaned, h_held, h_ret, buf_pool, token_pool, incs,
                   wheel_vars>>

(* lines 59-60: total() returns; rps = total.wrapping_sub(prev); prev =    *)
(* total; the delta is sent.                                               *)
PusherEmit ==
    /\ pusher.pc = "total"
    /\ pusher.i = NumWorkers
    /\ LET total == pusher.acc
           rps == wrapping_sub(total, pusher.prev)
       IN  pusher' = [pusher EXCEPT
                        !.pc = "sleep",
                        !.prev = total,
                        !.seen_prev = pusher.seen,
                        !.emit = [ticks |-> Min(pusher.emit.ticks + 1, 2),
                                  total |-> total, prev |-> pusher.prev,
                                  delta |-> rps,
                                  counted |-> SumSlots(pusher.seen, NumWorkers)
                                     - SumSlots(pusher.seen_prev, NumWorkers)],
                        !.sum = @ + rps]
    /\ UNCHANGED <<reactor_vars, loop_vars, h_loaned, h_held, h_ret, buf_pool, token_pool, incs,
                   wheel_vars>>

CounterInit ==
    /\ InitWorker
    /\ socks = [c \in Clients |-> Sock_new(<<>>)]

CounterNext == WorkerIncrement \/ PusherWake \/ PusherLoad \/ PusherEmit

CounterSpec == CounterInit /\ [][CounterNext]_vars

(* total() has loaded every slot and is about to return pusher.acc.        *)
TotalReturns == pusher.pc = "total" /\ pusher.i = NumWorkers

(* What C12 says of a state, and of a step.                                *)
SlotsCountCalls ==
    /\ \A w \in DOMAIN counter : counter[w] = incs[w]
    /\ TotalReturns => pusher.acc >= pusher.prev

SlotsOnlyGrow ==
    \A w \in DOMAIN counter :
        /\ counter'[w] >= counter[w]
        /\ incs'[w] = incs[w] => counter'[w] = counter[w]

(***************************************************************************)
(* C12 as claimed: under every interleaving slot w is the number of        *)
(* increment(w) calls made so far, and a total() the pusher observes is    *)
(* not below the one it observed before.                                   *)
(***************************************************************************)
C12_NoIncrementLost == SlotsCountCalls

(***************************************************************************)
(* C12 as amended: as long as fewer than 2^64 increments have been made in *)
(* all, slot w is the number of increment(w) calls made so far, a step     *)
(* changes slot w only by an increment(w) call and never lowers it, and a  *)
(* total() the pusher observes is not below the one before it; in any case *)
(* slot w is the number of increment(w) calls modulo 2^64.                 *)
(***************************************************************************)
C12_NoIncrementLostBelowWrap ==
    /\ [](/\ \A w \in DOMAIN counter : counter[w] = incs[w] % COUNTER_MOD
          /\ TotalIncs < COUNTER_MOD => SlotsCountCalls)
    /\ [][TotalIncs' < COUNTER_MOD => SlotsOnlyGrow]_vars

(* Every worker has incremented; the pusher observes a total above the one *)
(* before it while an increment made during this total() is not in it.     *)
C12_Witness ==
    /\ TotalReturns
    /\ TotalIncs < COUNTER_MOD
    /\ \A w \in DOMAIN counter : incs[w] > 0
    /\ pusher.prev > 0
    /\ pusher.acc > pusher.prev
    /\ pusher.acc < TotalIncs

(***************************************************************************)
(* C13: at every tick the emitted delta is (total - prev) mod 2^64, which  *)
(* is, modulo 2^64, the number of increments this total() saw and the one  *)
(* before it had not (and is that number when it is below 2^64), also when *)
(* the sum has wrapped in between; the deltas emitted so far add up,       *)
(* modulo 2^64, to the total just read, which is the number of increments  *)
(* it saw modulo 2^64.                                                     *)
(***************************************************************************)
C13_DeltaIsWrappingDifference ==
    pusher.emit.ticks > 0 =>
        LET e == pusher.emit IN
        /\ e.delta = (e.total - e.prev + COUNTER_MOD) % COUNTER_MOD
        /\ e.delta = e.counted % COUNTER_MOD
        /\ e.counted < COUNTER_MOD => e.delta = e.counted
        /\ pusher.sum % COUNTER_MOD = e.total
        /\ e.total = SumSlots(pusher.seen_prev, NumWorkers) % COUNTER_MOD

(* A delta emitted across a wrap of the sum: the total read is below the   *)
(* one before it, and the delta is the number of increments in between.    *)
C13_Witness ==
    /\ pusher.emit.ticks > 1
    /\ pusher.emit.total < pusher.emit.prev
    /\ pusher.emit.delta > 0
    /\ pusher.emit.delta = pusher.emit.counted



(***************************************************************************)
(* AcceptFailSpec: more clients than the worker admits, connecting and     *)
(* closing in any order; the token pool runs out, and the registration of  *)
(* any accepted socket may fail.                                           *)
(***************************************************************************)
AcceptFailNext ==
    \/ Poll(AdmitHeap, ReadyTokens)
    \/ TimeoutDrain
    \/ DispatchAccept(Clients)
    \/ DispatchConn(WholeReads, WholeWrites)
    \/ CloseDrain
    \/ Connect
    \/ ClientClose

AcceptFailSpec == AdmitInit /\ [][AcceptFailNext]_vars

(* The tokens a token pool has handed out and not got back.                *)
HeldTokens(tp) == {t \in DOMAIN tp.in_use : tp.in_use[t]}

(* What an admission is said to leave alone when it fails.                 *)
AdmissionState(w) ==
    [slab |-> w.slab, held |-> HeldTokens(w.token_pool),
     active |-> w.buf_pool.active, timeout_heap |-> w.timeout_heap,
     registry |-> w.registry]

(* Wherever accept_connections is about to run: whatever part of the       *)
(* backlog it has gone through and whichever registrations fail, an        *)
(* admission that drops the connection leaves the slab, the held tokens,   *)
(* buf_pool.active, the timeout heap and the registrations as they were.   *)
FailedAdmissionLeavesState ==
    (pc = "dispatch" /\ SERVER_TOKEN \in events) =>
        \A k \in 1..Len(backlog), regFail \in SUBSET Range(backlog) :
            LET before == accept_connections(World, SubSeq(backlog, 1, k - 1),
                                             regFail, clock)
                after == accept_one(before, backlog[k],
                                    backlog[k] \in regFail, clock)
            IN  after.socks[backlog[k]].st = "dropped" =>
                    AdmissionState(after) = AdmissionState(before)

(* Live connections, held tokens and lent buffers.                         *)
AdmissionCounts ==
    /\ Cardinality(LiveTokens) = Cardinality(HeldTokens(token_pool))
    /\ Cardinality(LiveTokens) = buf_pool.active
    /\ LiveTokens = HeldTokens(token_pool)
    /\ buf_pool.active <= MAX_CONNS

(* A step that handles the listener's event: every socket it accepted is   *)
(* admitted or dropped, and the worker is left as accept_connections       *)
(* leaves it when the dropped sockets had never arrived.                   *)
AcceptContinues ==
    (SERVER_TOKEN \in events /\ SERVER_TOKEN \notin events') =>
        LET k == Len(backlog) - Len(backlog')
            accepted == SubSeq(backlog, 1, k)
            IsAdmitted(s) == socks'[s].st = "open"
            without == accept_connections(World, SelectSeq(accepted, IsAdmitted),
                                          {}, clock)
        IN  /\ \A i \in 1..k : socks'[accepted[i]].st \in {"open", "dropped"}
            /\ \A i \in 1..k : IsAdmitted(accepted[i]) =>
                                  without.socks[accepted[i]].st = "open"
            /\ AdmissionState(World') = AdmissionState(without)

(***************************************************************************)
(* C14: an admission that fails in accept_connections (no token, no        *)
(* buffer, registration failed) leaves the slab, the held tokens,          *)
(* buf_pool.active and the timeout heap as they were; the loop goes on to  *)
(* the next pending connection, which is admitted as if the failed ones    *)
(* had not arrived; live connections, held tokens and lent buffers are     *)
(* equal in number and never more than MAX_CONNS.                          *)
(***************************************************************************)
C14_FailedAdmissionReleasesAll ==
    /\ [](FailedAdmissionLeavesState /\ AdmissionCounts)
    /\ [][AcceptContinues]_vars

(* A registration failed while a token was to be had (nothing was closed   *)
(* and the token pool is not exhausted): the socket was dropped, its token *)
(* is back in the free list, and the connection admitted before it is as   *)
(* it was.                                                                 *)
C14_Witness ==
    /\ NoClose
    /\ backlog = <<>>
    /\ \E c \in Clients : socks[c].st = "dropped"
    /\ \E c \in Clients : Admitted(c)
    /\ Cardinality(LiveTokens) < MAX_CONNS - 1
    /\ token_pool.free # <<>>
    /\ AdmissionCounts



(***************************************************************************)
(* MisuseSpec: PoolSpec, and a client that also releases buffers the pool  *)
(* has not on loan.  release takes the Box by value, so the same Box       *)
(* cannot be released twice; a Box the caller made itself, or got from     *)
(* elsewhere, can.  At most MaxStray such releases are counted by the pool *)
(* at any time.                                                            *)
(***************************************************************************)
MaxStray == 1

HBufReleaseStray ==
    /\ Len(h_loaned) - buf_pool.active < MaxStray
    /\ buf_pool' = BufPool_release(buf_pool, ZeroBuf)
    /\ h_ret' = [op |-> "buf_release_stray", pre_active |-> buf_pool.active]
    /\ UNCHANGED <<token_pool, h_loaned, h_held, reactor_vars, loop_vars, stats_vars, wheel_vars>>

MisuseNext == PoolNext \/ HBufReleaseStray

MisuseSpec == PoolInit /\ [][MisuseNext]_vars

(***************************************************************************)
(* C15: releasing a buffer that is not on loan never takes buf_pool.active *)
(* below zero nor below the number of buffers on loan; releasing token 0,  *)
(* a token >= MAX_CONNS or a token not held leaves the token pool such     *)
(* that every held token is marked in use and absent from the free list,   *)
(* and acquire never returns a held token.                                 *)
(***************************************************************************)
C15_InvalidReleaseIsNoOp ==
    /\ buf_pool.active >= 0
    /\ buf_pool.active >= Len(h_loaned)
    /\ \A t \in h_held : token_pool.in_use[t]
    /\ \A i \in 1..Len(token_pool.free) : token_pool.free[i] \notin h_held
    /\ h_ret.op = "tok_acquire" => ~h_ret.dup



(***************************************************************************)
(* The slab's operations applied to the slab of a reactor state.           *)
(***************************************************************************)
(* The connection records at hand: the live ones and a fresh one.          *)
SomeConns ==
    {Unwrap(Slab_get(slab, t)) : t \in {u \in DOMAIN slab : IsSome(Slab_get(slab, u))}}
        \cup {Conn_new(1, response, ZeroBuf, clock)}

SlabIndexLaw ==
    \A t \in 0..(MAX_CONNS - 1) :
        /\ \A c \in SomeConns :
              LET ins == Slab_insert(slab, t, c) IN
              /\ Slab_get(ins, t) = Some(c)
              /\ \A u \in 0..(MAX_CONNS - 1) :
                    u # t => Slab_get(ins, u) = Slab_get(slab, u)
        /\ LET rem == Slab_remove(slab, t) IN
              /\ Slab_get(rem, t) = None
              /\ \A u \in 0..(MAX_CONNS - 1) :
                    u # t => Slab_get(rem, u) = Slab_get(slab, u)

(* Wherever accept_connections is about to run, whatever part of the       *)
(* backlog it has gone through and whichever registrations fail: an        *)
(* admission changes the slab in one slot only, which was empty and now    *)
(* holds the accepted socket's record.                                     *)
AcceptInsertsIntoEmptySlot ==
    (pc = "dispatch" /\ SERVER_TOKEN \in events) =>
        \A k \in 1..Len(backlog), regFail \in SUBSET Range(backlog) :
            LET before == accept_connections(World, SubSeq(backlog, 1, k - 1),
                                             regFail, clock)
                after == accept_one(before, backlog[k],
                                    backlog[k] \in regFail, clock)
            IN  after.socks[backlog[k]].st = "open" =>
                    \E t \in DOMAIN slab :
                        /\ Slab_get(before.slab, t) = None
                        /\ IsSome(Slab_get(after.slab, t))
                        /\ Unwrap(Slab_get(after.slab, t)).stream = backlog[k]
                        /\ \A u \in DOMAIN slab :
                              u # t => Slab_get(after.slab, u)
                                          = Slab_get(before.slab, u)

(***************************************************************************)
(* C16: for every token t < MAX_CONNS and connection c, get(t) after       *)
(* insert(t, c) is c, get(t) after remove(t) is empty, and neither changes *)
(* another slot; in every reachable state of the reactor an admission      *)
(* inserts into an empty slot.                                             *)
(***************************************************************************)
C16_SlabIndexLaw == SlabIndexLaw /\ AcceptInsertsIntoEmptySlot

(* Every slot a token leads to is filled by an admitted connection, one of *)
(* them a slot that a connection closed since had filled before.           *)
C16_Witness ==
    /\ LiveTokens = Tokens
    /\ Cardinality(LiveTokens) > 1
    /\ \A c \in Clients : socks[c].st = "open" => Admitted(c)
    /\ \E c \in Clients : socks[c].st = "closed"
    /\ \A t \in Tokens : \E c \in Clients :
          socks[c].st = "open" /\ Unwrap(registry[c]).token = t


(***************************************************************************)
(* WheelSpec: a caller of one TimerWheel, created at time 0 with           *)
(* CONN_TIMEOUT, that lets time pass, calls advance at least once per      *)
(* POLL_TIMEOUT, and calls add at any time, up to MaxWheelAdds times.      *)
(* The k-th add passes generation k, so that entries can be told apart.    *)
(***************************************************************************)
MaxWheelTime == 14
MaxWheelAdds == 2

WheelTick ==
    /\ wheel_h.now < MaxWheelTime
    /\ wheel_h.now + 1 - wheel_h.last_adv <= POLL_TIMEOUT * SLOT_DURATION
    /\ wheel_h' = [wheel_h EXCEPT !.now = @ + 1]
    /\ UNCHANGED <<reactor_vars, loop_vars, h_loaned, h_held, h_ret, buf_pool, token_pool,
                   stats_vars, wheel>>

WheelAdd ==
    /\ Len(wheel_h.adds) < MaxWheelAdds
    /\ \E token \in Tokens :
          LET generation == Len(wheel_h.adds) + 1 IN
          /\ wheel' = TimerWheel_add(wheel, token, generation)
          /\ wheel_h' = [wheel_h EXCEPT !.adds = Append(@,
                            [entry |-> <<token, generation>>,
                             T |-> wheel_h.now,
                             cursor |-> wheel.cursor,
                             last_tick |-> wheel.last_tick,
                             fresh |-> (wheel_h.last_adv = wheel_h.now),
                             advanced |-> FALSE, emitted |-> -1,
                             adv_before |-> -1, first |-> FALSE])]
    /\ UNCHANGED <<reactor_vars, loop_vars, h_loaned, h_held, h_ret, buf_pool, token_pool,
                   stats_vars>>

WheelAdvance ==
    /\ LET r == TimerWheel_advance(wheel, wheel_h.now, <<>>) IN
          /\ wheel' = r.wheel
          /\ wheel_h' = [wheel_h EXCEPT
                !.last_adv = wheel_h.now,
                !.adds = [k \in DOMAIN wheel_h.adds |->
                            LET a == wheel_h.adds[k] IN
                            IF a.entry \in Range(r.out)
                            THEN [a EXCEPT !.advanced = TRUE,
                                           !.emitted = wheel_h.now,
                                           !.adv_before = wheel_h.last_adv,
                                           !.first = ~a.advanced]
                            ELSE [a EXCEPT !.advanced = TRUE]]]
    /\ UNCHANGED <<reactor_vars, loop_vars, h_loaned, h_held, h_ret, buf_pool, token_pool,
                   stats_vars>>

WheelInit ==
    /\ InitWorker
    /\ socks = [c \in Clients |-> Sock_new(<<>>)]

WheelNext == WheelTick \/ WheelAdd \/ WheelAdvance

WheelSpec == WheelInit /\ [][WheelNext]_vars

(* The slot that holds entry e, as a set (empty: none, it has come out).   *)
SlotsOf(e) == {i \in DOMAIN wheel.slots : e \in Range(wheel.slots[i])}

(* The time from which an advance call emits the entry of add a.           *)
DueFrom(a) == a.last_tick + wheel.timeout_slots * SLOT_DURATION

CurrentEntries(t) ==
    LET S == {e \in BagToSet(timeout_heap) :
                 e.token = t /\ EntryMatches(slab, e)}
    IN  BagCardinality([e \in S |-> CopiesIn(e, timeout_heap)])

(***************************************************************************)
(* C18: every handle_connection on a live token raises the connection's    *)
(* generation and pushes an entry with the new generation, so at any time  *)
(* at most one entry in the timeout heap matches a live connection's       *)
(* generation.                                                             *)
(***************************************************************************)
C18_OneCurrentEntryPerConnection ==
    \A t \in LiveTokens : CurrentEntries(t) <= 1



(***************************************************************************)
(* PhaseSpec: one client, as in ReqSpec, that sends two requests, or a     *)
(* request and then bytes that fill the buffer, or a buffer full of bytes  *)
(* that end in a terminator; its bytes arrive a request's length or a      *)
(* buffer's length at a time, and reregister calls may fail.               *)
(***************************************************************************)
PhaseScripts ==
    {TERMINATOR \o TERMINATOR,
     TERMINATOR \o Filler(BUF_SIZE),
     Filler(BUF_SIZE - Len(TERMINATOR)) \o TERMINATOR}

PhaseInit ==
    /\ InitWorker
    /\ \E sc \in PhaseScripts :
          socks = [c \in Clients |-> IF c = 1 THEN Client(sc) ELSE Sock_new(<<>>)]

PhaseNext ==
    \/ Poll(ReqHeap, ActiveTokens)
    \/ TimeoutDrain
    \/ DispatchAccept({})
    \/ DispatchConn(ReadInputs, ReregWriteInputs)
    \/ CloseDrain
    \/ Connect
    \/ Deliver({Len(TERMINATOR), BUF_SIZE})
    \/ ClientClose

PhaseSpec == PhaseInit /\ [][PhaseNext]_vars

(***************************************************************************)
(* C19: whenever handle_connection has returned, every live connection has *)
(* read_len <= BUF_SIZE and write_pos absent, or present and below the     *)
(* response's length; write_pos = response length is never seen.           *)
(***************************************************************************)
C19_PhaseInvariant ==
    \A t \in LiveTokens :
        LET c == Unwrap(Slab_get(slab, t)) IN
        /\ c.read_len <= BUF_SIZE
        /\ c.read_len <= Len(c.read_buf)
        /\ IF IsSome(c.write_pos)
           THEN Unwrap(c.write_pos) >= 0 /\ Unwrap(c.write_pos) < Len(c.write_buf)
           ELSE c.write_pos = None

(* handle_connection has written the last byte of a response and then read *)
(* until the buffer was full: write_pos is absent, read_len is BUF_SIZE.   *)
C19_Witness ==
    \E s \in Clients :
        /\ IsSome(ConnOf(s))
        /\ Len(socks[s].out) = RESP_LEN
        /\ counter[thread_id] = 1
        /\ Unwrap(ConnOf(s)).write_pos = None
        /\ Unwrap(ConnOf(s)).read_len = BUF_SIZE

(***************************************************************************)
(* C20 as claimed: whenever a loop iteration has ended, every live         *)
(* connection is registered under its token, for readable only while       *)
(* write_pos is absent and for readable and writable while write_pos is    *)
(* present.                                                                *)
(***************************************************************************)
C20_InterestMatchesPhase ==
    pc = "poll" =>
        \A t \in LiveTokens :
            LET c == Unwrap(Slab_get(slab, t)) IN
            /\ IsSome(registry[c.stream])
            /\ Unwrap(registry[c.stream]).token = t
            /\ Unwrap(registry[c.stream]).interest
                  = IF IsSome(c.write_pos) THEN "RW" ELSE "R"

(***************************************************************************)
(* C20 as amended: whenever a loop iteration has ended, every live         *)
(* connection is registered under its token, for readable only or for      *)
(* readable and writable; if the last reregister call for it did not fail  *)
(* (or none was made), for readable only while write_pos is absent and for *)
(* readable and writable while write_pos is present.                       *)
(***************************************************************************)
C20_InterestMatchesPhaseUnlessReregisterFailed ==
    pc = "poll" =>
        \A t \in LiveTokens :
            LET c == Unwrap(Slab_get(slab, t)) IN
            /\ IsSome(registry[c.stream])
            /\ Unwrap(registry[c.stream]).token = t
            /\ Unwrap(registry[c.stream]).interest \in {"R", "RW"}
            /\ ~socks[c.stream].rfailed =>
                  Unwrap(registry[c.stream]).interest
                      = IF IsSome(c.write_pos) THEN "RW" ELSE "R"

(* A loop iteration has ended with a connection that, after one complete   *)
(* response, is in Writing: the write of its second response has stopped   *)
(* on would-block after one byte, and its interest is readable and         *)
(* writable.                                                               *)
C20_Witness ==
    /\ pc = "poll"
    /\ \E s \in Clients :
          /\ IsSome(ConnOf(s))
          /\ Len(socks[s].out) = RESP_LEN + 1
          /\ IsSome(Unwrap(ConnOf(s)).write_pos)
          /\ Unwrap(registry[s]).interest = "RW"
          /\ ~socks[s].rfailed



(***************************************************************************)
(* The close drain statement by statement: the traces of the close_conn    *)
(* calls the drain is about to make, for a deregister that succeeds or     *)
(* fails.                                                                  *)
(***************************************************************************)
CloseTraces ==
    IF pc = "dispatch" /\ events = {}
    THEN {[tok |-> to_close[k],
           derr |-> derr,
           live |-> IsSome(Slab_get(
                       close_drain(World, SubSeq(to_close, 1, k - 1)).slab,
                       to_close[k])),
           conn |-> Slab_get(
                       close_drain(World, SubSeq(to_close, 1, k - 1)).slab,
                       to_close[k]),
           ret |-> close_conn(close_drain(World, SubSeq(to_close, 1, k - 1)),
                              to_close[k]),
           trace |-> close_conn_trace(
                        close_drain(World, SubSeq(to_close, 1, k - 1)),
                        to_close[k], derr)] :
             k \in 1..Len(to_close), derr \in BOOLEAN}
    ELSE {}

(* In worker w: token tok can be acquired again; the socket of connection  *)
(* c is registered.                                                        *)
TokenAvailable(w, tok) == ~w.token_pool.in_use[tok]
StillRegistered(w, c) == IsSome(w.registry[c.stream])

CopiesThenPrefix(b) ==
    \A i \in 1..Len(b) : b[i] = response[((i - 1) % RESP_LEN) + 1]

(***************************************************************************)
(* C22: for every pattern of partial writes and would-blocks, the bytes    *)
(* written to a connection are whole copies of the response followed by at *)
(* most one proper prefix of it, and write_pos, when present, is the       *)
(* length of that prefix: the next write resumes where the last one ended. *)
(***************************************************************************)
C22_ResponseBytesInOrder ==
    \A s \in Clients :
        /\ CopiesThenPrefix(socks[s].out)
        /\ IsSome(ConnOf(s)) =>
              LET c == Unwrap(ConnOf(s)) IN
              IF IsSome(c.write_pos)
              THEN Unwrap(c.write_pos) = Len(socks[s].out) % RESP_LEN
              ELSE Len(socks[s].out) % RESP_LEN = 0

(* A connection has got one whole response and the first byte of the next, *)
(* and is closed: its last write failed.                                   *)
C22_Witness ==
    \E s \in Clients :
        /\ socks[s].st = "closed"
        /\ Len(socks[s].out) = RESP_LEN + 1
        /\ socks[s].out = response \o <<response[1]>>



(* A step of the dispatch, seen from a live connection whose token t is in *)
(* the close list: the step leaves its last_active, the bytes written to   *)
(* it and, when the step handles t's event, the counter as they were; the  *)
(* step that drains the close list closes it.                              *)
EnqueuedIsLeftAlone(t) ==
    LET c == Unwrap(Slab_get(slab, t)) IN
    /\ pc' = "dispatch" =>
          /\ IsSome(Slab_get(slab', t))
          /\ Unwrap(Slab_get(slab', t)).last_active = c.last_active
          /\ socks'[c.stream].out = socks[c.stream].out
          /\ t \in events \ events' => counter' = counter
    /\ pc' = "poll" =>
          /\ Slab_get(slab', t) = None
          /\ socks'[c.stream].st = "closed"

(***************************************************************************)
(* C23: once a token is in the close list, for the rest of the loop        *)
(* iteration no response byte is written to its connection, its            *)
(* last_active is not refreshed and the counter is not incremented for it, *)
(* and the iteration's close drain closes the connection.                  *)
(***************************************************************************)
C23_NoServiceAfterEnqueue ==
    [][pc = "dispatch" =>
          \A t \in Range(to_close) \cap LiveTokens : EnqueuedIsLeftAlone(t)]_vars



(***************************************************************************)
(* The close drain call by call.                                           *)
(***************************************************************************)
(* The worker before the k-th close_conn call of the drain that is about   *)
(* to run, and after it.                                                   *)
BeforeClose(k) == close_drain(World, SubSeq(to_close, 1, k - 1))
AfterClose(k) == close_conn(BeforeClose(k), to_close[k])

(* The close list names to_close[k] before position k already.             *)
Repeated(k) == to_close[k] \in Range(SubSeq(to_close, 1, k - 1))

(* How often token t is in the free list of token pool p.                  *)
FreeCount(p, t) == Cardinality({i \in 1..Len(p.free) : p.free[i] = t})

(* In worker w the pools account for the occupied slots.                   *)
AccountsFor(w) ==
    LET live == {t \in Tokens : IsSome(Slab_get(w.slab, t))} IN
    /\ w.buf_pool.active = Cardinality(live)
    /\ HeldTokens(w.token_pool) = live
    /\ \A t \in Tokens : FreeCount(w.token_pool, t) = IF t \in live THEN 0
                            ELSE IF t < w.token_pool.next THEN 1 ELSE 0

(* The k-th call of the drain: the first call on a token finds its         *)
(* connection and gives back one buffer and the token; a later call on     *)
(* the same token changes nothing.                                         *)
ReleasesOnce(k) ==
    LET tok == to_close[k]
        b == BeforeClose(k)
        a == AfterClose(k)
    IN  IF Repeated(k)
        THEN /\ Slab_get(b.slab, tok) = None
             /\ a = b
        ELSE /\ IsSome(Slab_get(b.slab, tok))
             /\ b.token_pool.in_use[tok]
             /\ Slab_get(a.slab, tok) = None
             /\ a.buf_pool.active = b.buf_pool.active - 1
             /\ HeldTokens(a.token_pool) = HeldTokens(b.token_pool) \ {tok}
             /\ a.token_pool.free = Append(b.token_pool.free, tok)

(* A step of the dispatch closes no connection, releases no token and      *)
(* gives no occupied slot to another socket.                               *)
DispatchReleasesNothing ==
    (pc = "dispatch" /\ pc' = "dispatch") =>
        /\ HeldTokens(token_pool) \subseteq HeldTokens(token_pool')
        /\ \A t \in LiveTokens :
              /\ IsSome(Slab_get(slab', t))
              /\ Unwrap(Slab_get(slab', t)).stream
                    = Unwrap(Slab_get(slab, t)).stream

(***************************************************************************)
(* C24: a token that is in the close list more than once is released,      *)
(* with its buffer, exactly once by the drain; no step of the dispatch     *)
(* releases a token, so none is released and acquired again within one     *)
(* iteration; the pools account for the live connections before, during    *)
(* and after the drain.                                                    *)
(***************************************************************************)
C24_DuplicateCloseReleasesOnce ==
    /\ [](AccountsFor(World)
          /\ (pc = "dispatch" /\ events = {} =>
                 /\ \A k \in 1..Len(to_close) :
                       ReleasesOnce(k) /\ AccountsFor(AfterClose(k))
                 /\ AccountsFor(close_drain(World, to_close))))
    /\ [][DispatchReleasesNothing]_vars

(* The drain is about to run on a close list that names a live connection  *)
(* twice, once for its timeout and once for the end of stream its read     *)
(* met, while another connection stays open.                               *)
C24_Witness ==
    /\ pc = "dispatch"
    /\ events = {}
    /\ \E k \in 1..Len(to_close) :
          /\ Repeated(k)
          /\ \E r \in reaped : r.token = to_close[k]
          /\ \E e \in DOMAIN timeout_heap :
                e.token = to_close[k] /\ e.deadline = now + CONN_TIMEOUT
          /\ LET c == Unwrap(Slab_get(slab, to_close[k])) IN
             /\ ~has_pending_write(c)
             /\ socks[c.stream].fin
             /\ socks[c.stream].inbuf = <<>>
    /\ LiveTokens \ Range(to_close) # {}
    /\ Cardinality(LiveTokens) > Cardinality(
          {t \in Tokens : IsSome(Slab_get(close_drain(World, to_close).slab, t))})



(***************************************************************************)
(* RecycleSpec: an earlier client and a later one.  The buffer the earlier *)
(* connection read into goes back to the pool as it is (pool.rs 31-40) and *)
(* is handed to the next connection accepted (pool.rs 22-29).  Bytes       *)
(* arrive in pieces; reads may be partial or fail.                         *)
(***************************************************************************)
EarlierScripts == {TERMINATOR, <<XX>> \o TERMINATOR}
LaterScripts == {<<CR, LF>>, <<XX, CR, LF, CR, LF>>, <<LF, CR, LF, XX>>}

RecycleInit ==
    /\ InitWorker
    /\ \E e \in EarlierScripts, l \in LaterScripts :
          socks = [c \in Clients |->
                      IF c = 1 THEN Client(e)
                      ELSE IF c = 2 THEN Client(l) ELSE Sock_new(<<>>)]

(* A client connects when the worker has closed the connections of the     *)
(* clients before it.                                                      *)
ConnectInTurn ==
    /\ pc = "poll"
    /\ \E c \in Clients :
          /\ socks[c].st = "new"
          /\ \A d \in Clients : d < c => socks[d].st = "closed"
          /\ socks' = [socks EXCEPT ![c].st = "backlog"]
          /\ backlog' = Append(backlog, c)
    /\ UNCHANGED <<clock, poll_start, now, pc, events, slab, token_pool,
                   buf_pool, to_close, timeout_heap, registry, counter,
                   reaped, last_rc, harness_vars>>

RecycleNext ==
    \/ Poll(ReqHeap, ActiveTokens)
    \/ TimeoutDrain
    \/ DispatchAccept({})
    \/ DispatchConn(ReadInputs, WholeWrites)
    \/ CloseDrain
    \/ ConnectInTurn
    \/ Deliver({2, BUF_SIZE})
    \/ ClientClose

RecycleSpec == RecycleInit /\ [][RecycleNext]_vars

(* Prior contents a buffer may carry: the terminator repeated, at every    *)
(* alignment, and every byte repeated.                                     *)
PriorContents ==
    {[i \in 1..BUF_SIZE |-> TERMINATOR[((i + k) % Len(TERMINATOR)) + 1]] :
        k \in 0..(Len(TERMINATOR) - 1)}
    \cup {[i \in 1..BUF_SIZE |-> b] : b \in {CR, LF, XX, NUL}}

(* buf with everything from position len on (0-based) taken from prior.    *)
Overlay(buf, len, prior) ==
    [i \in 1..BUF_SIZE |-> IF i <= len THEN buf[i] ELSE prior[i]]

(* Worker w with other prior contents: in every buffer, on loan or         *)
(* recycled, the bytes no read of its present connection has written.      *)
WithPrior(w, prior) ==
    [w EXCEPT
        !.slab = [t \in DOMAIN w.slab |->
                    IF IsSome(w.slab[t])
                    THEN Some([Unwrap(w.slab[t]) EXCEPT
                                 !.read_buf = Overlay(@, Unwrap(w.slab[t]).read_len,
                                                      prior)])
                    ELSE None],
        !.buf_pool.free = [i \in 1..Len(w.buf_pool.free) |-> prior]]

(* What a handle_connection call shows: the worker it leaves (sockets with *)
(* the bytes written, registrations, slab, heap, pools), the close list,   *)
(* the counter, and request_complete's input, result and the connection    *)
(* as arm_write left it; all without the prior contents.                   *)
Shown(h) ==
    [w |-> WithPrior(h.w, ZeroBuf),
     to_close |-> h.to_close,
     counter |-> h.counter,
     rc |-> IF h.rc.called
            THEN [h.rc EXCEPT
                    !.read_buf = Overlay(@, h.rc.read_len, ZeroBuf),
                    !.armed = [@ EXCEPT !.read_buf =
                                 Overlay(@, h.rc.armed.read_len, ZeroBuf)]]
            ELSE h.rc]

(* Whatever the prior contents, the step the worker is about to take       *)
(* (accepting, handling an event, draining the close list) shows the same  *)
(* and leaves workers that differ in prior contents only.                  *)
PriorContentsUnseen(prior) ==
    LET v == WithPrior(World, prior) IN
    /\ \A token \in (events \ {SERVER_TOKEN}) \cap LiveTokens :
          \A rd \in ReadInputs, wr \in WholeWrites :
              Shown(handle_connection(v, token, to_close, counter, clock, rd, wr))
                  = Shown(handle_connection(World, token, to_close, counter,
                                            clock, rd, wr))
    /\ SERVER_TOKEN \in events =>
          \A k \in 0..Len(backlog) :
              WithPrior(accept_connections(v, SubSeq(backlog, 1, k), {}, clock),
                        ZeroBuf)
                  = WithPrior(accept_connections(World, SubSeq(backlog, 1, k),
                                                 {}, clock), ZeroBuf)
    /\ events = {} =>
          WithPrior(close_drain(v, to_close), ZeroBuf)
              = WithPrior(close_drain(World, to_close), ZeroBuf)

(***************************************************************************)
(* C25: two runs that differ only in the prior contents of the buffers     *)
(* BufPool::acquire hands out agree in every request_complete result,      *)
(* arm_write decision, response byte and close decision: from workers that *)
(* differ in prior contents only, every step of the dispatch shows the     *)
(* same and leaves workers that differ in prior contents only.             *)
(***************************************************************************)
C25_PriorBufferContentsDoNotInfluence ==
    pc = "dispatch" => \A prior \in PriorContents : PriorContentsUnseen(prior)

(* The later connection reads into the buffer the earlier, closed one      *)
(* left: request_complete said no on the bytes received although the       *)
(* buffer, taken as a whole, holds a terminator.                           *)
C25_Witness ==
    /\ socks[1].st = "closed"
    /\ IsSome(ConnOf(2))
    /\ socks[2].out = <<>>
    /\ last_rc.called
    /\ ~last_rc.ret
    /\ last_rc.read_buf = Unwrap(ConnOf(2)).read_buf
    /\ last_rc.read_len > 0
    /\ WindowsAny(last_rc.read_buf, 0, BUF_SIZE)



(***************************************************************************)
(* LoopSpec: one connection on token 1 whose socket may answer every read  *)
(* and every write with any result: some bytes, no byte, would-block or    *)
(* another error.  Each turn of the loop of do_read and of do_write is a   *)
(* step.                                                                   *)
(***************************************************************************)
(* What stream.read may return: Ok with bytes (cut to the room left in the *)
(* buffer; none: Ok(0)), would-block, or another error.                    *)
ReadResults ==
    {[kind |-> "ok", bytes |-> b] :
        b \in {<<>>, <<XX>>, TERMINATOR}}
    \cup {[kind |-> "wouldblock"], [kind |-> "err"]}

(* What stream.write may return on a slice of len bytes.                   *)
WriteResults(len) ==
    {[kind |-> "ok", n |-> n] : n \in 0..len}
    \cup {[kind |-> "wouldblock"], [kind |-> "err"]}

(* lines 173-189, 198: poll reports the connection; handle_connection      *)
(* enters do_read, or do_write when a response is pending.                 *)
LoopEvent ==
    /\ call.pc = "poll"
    /\ call.open
    /\ call' = [call EXCEPT
                  !.pc = IF has_pending_write(call.conn) THEN "do_write"
                         ELSE "do_read",
                  !.turn = 0]
    /\ UNCHANGED <<reactor_vars, buf_pool, token_pool, h_loaned, h_held, h_ret,
                   stats_vars, wheel_vars>>

(* lines 205-231: one turn of do_read's loop.                              *)
ReadTurn ==
    /\ call.pc = "do_read"
    /\ LET conn == call.conn IN
       IF conn.read_len >= BUF_SIZE
       THEN call' = [call EXCEPT !.to_close = Append(@, 1), !.pc = "drain"]
       ELSE \E res \in ReadResults :
               CASE res.kind = "ok" ->
                      LET n == Min(Len(res.bytes), BUF_SIZE - conn.read_len)
                          conn1 == [conn EXCEPT
                                      !.read_buf = [i \in 1..BUF_SIZE |->
                                          IF i > conn.read_len
                                                /\ i <= conn.read_len + n
                                          THEN res.bytes[i - conn.read_len]
                                          ELSE conn.read_buf[i]],
                                      !.read_len = @ + n]
                      IN  IF n = 0
                          THEN call' = [call EXCEPT !.to_close = Append(@, 1),
                                                    !.pc = "drain"]
                          ELSE IF conn1.read_len > MAX_REQUEST_SIZE
                          THEN call' = [call EXCEPT !.conn = conn1,
                                                    !.to_close = Append(@, 1),
                                                    !.pc = "drain"]
                          ELSE call' = [call EXCEPT !.conn = conn1,
                                                    !.turn = 1 - @]
                 [] res.kind = "wouldblock" ->
                      call' = [call EXCEPT !.pc = "complete"]
                 [] res.kind = "err" ->
                      call' = [call EXCEPT !.to_close = Append(@, 1),
                                           !.pc = "drain"]
    /\ UNCHANGED <<reactor_vars, buf_pool, token_pool, h_loaned, h_held, h_ret,
                   stats_vars, wheel_vars>>

(* lines 190-201: request_complete, arm_write, and do_write when a         *)
(* response is pending.                                                    *)
Complete ==
    /\ call.pc = "complete"
    /\ LET rc == request_complete(call.conn)
           conn1 == IF rc.ret THEN arm_write(rc.conn) ELSE rc.conn
       IN  call' = [call EXCEPT
                      !.conn = conn1,
                      !.pc = IF has_pending_write(conn1) THEN "do_write"
                             ELSE "drain",
                      !.turn = 0]
    /\ UNCHANGED <<reactor_vars, buf_pool, token_pool, h_loaned, h_held, h_ret,
                   stats_vars, wheel_vars>>

(* lines 248-270: one turn of do_write's loop; current_pos is write_pos    *)
(* at the head of every turn (lines 243, 252).                             *)
WriteTurn ==
    /\ call.pc = "do_write"
    /\ LET conn == call.conn
           current_pos == Unwrap(conn.write_pos)
       IN  \E res \in WriteResults(Len(conn.write_buf) - current_pos) :
               CASE res.kind = "ok" ->
                      LET pos1 == current_pos + res.n
                          conn1 == [conn EXCEPT !.write_pos = Some(pos1)]
                      IN  IF ~has_pending_write(conn1)
                          THEN call' = [call EXCEPT
                                          !.conn = reset_for_read(conn1),
                                          !.counter = RpsCounter_increment(
                                                         @, thread_id),
                                          !.pc = "drain"]
                          ELSE call' = [call EXCEPT !.conn = conn1,
                                                    !.turn = 1 - @]
                 [] res.kind = "wouldblock" ->
                      call' = [call EXCEPT !.pc = "drain"]
                 [] res.kind = "err" ->
                      call' = [call EXCEPT !.to_close = Append(@, 1),
                                           !.pc = "drain"]
    /\ UNCHANGED <<reactor_vars, buf_pool, token_pool, h_loaned, h_held, h_ret,
                   stats_vars, wheel_vars>>

(* lines 101-103: the close drain; then the next poll.                     *)
Drain ==
    /\ call.pc = "drain"
    /\ call' = [call EXCEPT
                  !.open = (call.to_close = <<>>),
                  !.to_close = <<>>,
                  !.pc = "poll"]
    /\ UNCHANGED <<reactor_vars, buf_pool, token_pool, h_loaned, h_held, h_ret,
                   stats_vars, wheel_vars>>

LoopInit ==
    /\ InitWorker
    /\ socks = [c \in Clients |-> Sock_new(<<>>)]

LoopNext == LoopEvent \/ ReadTurn \/ Complete \/ WriteTurn \/ Drain

LoopSpec == LoopInit /\ [][LoopNext]_vars

(* The worker thread runs: whatever statement it is at, it executes it.    *)
(* When the selector reports the connection is up to the peer.             *)
LoopFairSpec ==
    /\ LoopSpec
    /\ WF_vars(ReadTurn)
    /\ WF_vars(Complete)
    /\ WF_vars(WriteTurn)
    /\ WF_vars(Drain)

(* Every do_read call returns; every do_write call returns.                *)
DoReadTerminates == (call.pc = "do_read") ~> (call.pc # "do_read")
DoWriteTerminates == (call.pc = "do_write") ~> (call.pc # "do_write")

(***************************************************************************)
(* C26: every call of do_read and every call of do_write returns, whatever *)
(* the socket answers (bytes, no byte, would-block, another error), and    *)
(* the worker then reaches the close drain and the next poll.              *)
(***************************************************************************)
C26_ReadAndWriteTerminate ==
    /\ DoReadTerminates
    /\ DoWriteTerminates
    /\ (call.pc \in {"do_read", "complete", "do_write", "drain"})
          ~> (call.pc = "poll")


=============================================================================
